---------------------------- MODULE Spec2Model ----------------------------
(***************************************************************************)
(* Rule matching, rule loading and cross-tab rule synchronisation of the   *)
(* mock chat assistant (MessageMatcher, mockOWUI-fixed), its session store *)
(* (StorageManager) and its chat manager (ChatManager).                    *)
(*                                                                         *)
(* A string is a sequence of one-character strings; the prompts of the     *)
(* embedded rule set, which are longer than any modelled input, are kept   *)
(* as single tokens.  A chat context (a browser tab showing index.html)    *)
(* owns one MessageMatcher; the override 'chatRules' in localStorage is    *)
(* shared by all contexts and written by the admin surface.                *)
(***************************************************************************)
EXTENDS Integers, Sequences, FiniteSets, TLC

(* ------------------------------ bounds -------------------------------- *)

\* Longest user input, in characters.
MaxLen == 3

\* loadRules/reloadRules calls per context.
MaxLoads == 2

\* Writes (save or reset) of the override by the admin surface.
MaxWrites == 2

\* Calls of the session store, each at a later instant of the clock.
MaxClock == 4

(* ------------------------------ strings ------------------------------- *)

Chars == {"a", "A", "b", " ", "*"}

IsWhitespace(ch) == ch = " "

\* String.prototype.toLowerCase, one character
LowerChar(ch) == IF ch = "A" THEN "a" ELSE ch

\* String.prototype.toLowerCase
toLowerCase(s) == [i \in 1..Len(s) |-> LowerChar(s[i])]

RECURSIVE TrimStart(_)
TrimStart(s) ==
    IF s = <<>> THEN <<>>
    ELSE IF IsWhitespace(Head(s)) THEN TrimStart(Tail(s))
    ELSE s

RECURSIVE TrimEnd(_)
TrimEnd(s) ==
    IF s = <<>> THEN <<>>
    ELSE IF IsWhitespace(s[Len(s)]) THEN TrimEnd(SubSeq(s, 1, Len(s) - 1))
    ELSE s

\* String.prototype.trim
trim(s) == TrimEnd(TrimStart(s))

RECURSIVE SeqsUpTo(_)
SeqsUpTo(n) ==
    IF n = 0 THEN {<<>>}
    ELSE LET shorter == SeqsUpTo(n - 1)
         IN  shorter \cup {Append(s, ch) : s \in {t \in shorter : Len(t) = n - 1}, ch \in Chars}

\* The user inputs the model submits
Inputs == SeqsUpTo(MaxLen)

(* ------------------------------- rules -------------------------------- *)

\* The default a rule without (or with a falsy) priority is sorted by
DefaultPriority == 999

Wildcard == <<"*">>

\* match === '*'
IsCatchAll(rule) == rule.matchKind = "string" /\ rule.match[1] = Wildcard

\* A rule record of replies.json / chatRules.  hasPriority = FALSE is a rule
\* without a priority field.  match holds the strings of a legacy array
\* match, or the one string of a string match; matchKind tells them apart.
StrRule(m, cs, hp, p, t, v) ==
    [match |-> <<m>>, matchKind |-> "string", caseSensitive |-> cs,
     hasPriority |-> hp, priority |-> p, type |-> t, value |-> v,
     followup |-> <<>>]

ArrRule(ms, cs, hp, p, t, v) ==
    [match |-> ms, matchKind |-> "array", caseSensitive |-> cs,
     hasPriority |-> hp, priority |-> p, type |-> t, value |-> v,
     followup |-> <<>>]

\* A rule with the followup prompts it suggests
FollowedBy(rule, followup) == [rule EXCEPT !.followup = followup]

\* getFallbackRules(): six text rules, priorities 1..5 and the catch-all at
\* 999, each with four followup prompts
FallbackRules ==
    << FollowedBy(StrRule(<<"What kind of questions can you help with?">>, FALSE, TRUE, 1, "text", "e1"),
                  << <<"Can you help with technical issues?">>,
                     <<"How do I access employee benefits information?">>,
                     <<"What workplace policies can you explain?">>,
                     <<"Can you provide department contact information?">> >>),
       FollowedBy(StrRule(<<"Can you provide information on state employee resources?">>, FALSE, TRUE, 2, "text", "e2"),
                  << <<"How do I contact my HR department?">>,
                     <<"What is CalPERS and how do I access it?">>,
                     <<"Can you explain flexible work arrangements?">>,
                     <<"What professional development is available?">> >>),
       FollowedBy(StrRule(<<"How do I access California state government services?">>, FALSE, TRUE, 3, "text", "e3"),
                  << <<"How do I access the employee portal?">>,
                     <<"What training programs are available?">>,
                     <<"Can you help with benefits enrollment?">>,
                     <<"Where do I find internal communications?">> >>),
       FollowedBy(StrRule(<<"What are your limitations as a state employee assistant?">>, FALSE, TRUE, 4, "text", "e4"),
                  << <<"Who should I contact for HR issues?">>,
                     <<"How do I get official policy interpretations?">>,
                     <<"Where can I access my employee records?">>,
                     <<"What departments handle specific issues?">> >>),
       FollowedBy(StrRule(<<"Can you help with technical issues?">>, FALSE, TRUE, 5, "text", "e5"),
                  << <<"How do I contact IT support?">>,
                     <<"What browsers are officially supported?">>,
                     <<"How do I submit an IT help desk ticket?">>,
                     <<"Can you help with specific software issues?">> >>),
       FollowedBy(StrRule(Wildcard, FALSE, TRUE, 999, "text", "e6"),
                  << <<"What kind of questions can you help with?">>,
                     <<"Can you provide information on state employee resources?">>,
                     <<"How do I access California state government services?">>,
                     <<"Can you help with technical issues?">> >>) >>

\* The rules of a valid assets/data/replies.json
BundledRules ==
    << StrRule(<<"b">>, FALSE, TRUE, 3, "text", "j1"),
       StrRule(Wildcard, FALSE, TRUE, 999, "text", "j2"),
       StrRule(<<"a">>, FALSE, TRUE, 1, "text", "j3") >>

(* --------------------------- documents -------------------------------- *)

\* What localStorage.getItem('chatRules') / a storage event's newValue holds:
\* nothing, text JSON.parse rejects, a document without a rules list, or a
\* document with one.
Doc(kind, rs) == [kind |-> kind, rules |-> rs]

NoOverride == Doc("absent", <<>>)
Unparseable == Doc("unparseable", <<>>)
NoRulesList == Doc("norules", <<>>)
OkDoc(rs) == Doc("ok", rs)

\* The override documents the admin surface saves.  DocTies holds equal and
\* absent priorities out of order; DocZero holds a rule of priority 0.
DocTies ==
    OkDoc(<< StrRule(<<"b">>, FALSE, FALSE, 0, "text", "x1"),
             StrRule(<<"a">>, FALSE, TRUE, 2, "text", "x2"),
             StrRule(Wildcard, FALSE, FALSE, 0, "text", "x3"),
             StrRule(<<"A">>, FALSE, TRUE, 2, "image", "x4") >>)

DocZero ==
    OkDoc(<< StrRule(<<"a", "b">>, FALSE, TRUE, 5, "text", "y1"),
             StrRule(Wildcard, FALSE, TRUE, 0, "text", "y2") >>)

AdminDocs == {DocTies, DocZero, Unparseable, NoRulesList}

\* Further override documents a load can find: case-sensitive and legacy
\* array matches, a match with blanks around it, no catch-all, a catch-all
\* sorted first, two catch-alls, an empty rules list.
DocCase ==
    OkDoc(<< StrRule(Wildcard, FALSE, TRUE, 999, "text", "c1"),
             StrRule(<<"a", "b">>, TRUE, TRUE, 2, "text", "c2"),
             StrRule(<<"A">>, FALSE, TRUE, 1, "text", "c3"),
             StrRule(<<"a">>, FALSE, TRUE, 4, "text", "c4") >>)

DocArray ==
    OkDoc(<< ArrRule(<< <<"a">>, <<"b", "A">> >>, FALSE, TRUE, 3, "text", "l1"),
             StrRule(<<" ", "a">>, FALSE, TRUE, 4, "text", "l2"),
             StrRule(<<"b", "a">>, FALSE, TRUE, 5, "text", "l3"),
             StrRule(Wildcard, FALSE, FALSE, 0, "text", "l4") >>)

DocNoCatchAll ==
    OkDoc(<< StrRule(<<"a", " ", "b">>, FALSE, TRUE, 2, "text", "n1"),
             StrRule(<<"b">>, TRUE, FALSE, 0, "image", "n2") >>)

DocCatchAllFirst ==
    OkDoc(<< StrRule(<<"a">>, FALSE, TRUE, 5, "text", "f1"),
             StrRule(Wildcard, FALSE, TRUE, 1, "text", "f2"),
             StrRule(Wildcard, FALSE, TRUE, 7, "image", "f3") >>)

DocEmpty == OkDoc(<<>>)

\* An override with image rules: two whose match contains a keyword of
\* findImageAlternative ("demo", "screenshot", each kept as one token), and
\* one that matches an input a text rule stored before it matches too
DocDemo ==
    OkDoc(<< StrRule(<<"a">>, FALSE, TRUE, 1, "text", "d1"),
             FollowedBy(StrRule(<<"screenshot">>, FALSE, TRUE, 2, "image", "d2"),
                        << <<"b">> >>),
             StrRule(<<"a", " ", "demo">>, FALSE, TRUE, 3, "image", "d3"),
             FollowedBy(StrRule(<<"b">>, FALSE, TRUE, 4, "text", "d4"), << <<"a">> >>),
             StrRule(<<"A">>, FALSE, TRUE, 5, "image", "d5"),
             StrRule(Wildcard, FALSE, TRUE, 999, "text", "d6") >>)

\* A text rule with a followup prompt beside an image rule that no keyword
\* makes generic
DocPlain ==
    OkDoc(<< FollowedBy(StrRule(<<"b">>, FALSE, TRUE, 1, "text", "e1"), << <<"a">> >>),
             StrRule(<<"A">>, FALSE, TRUE, 2, "image", "e2"),
             StrRule(Wildcard, FALSE, TRUE, 999, "text", "e3") >>)

LoadDocs ==
    AdminDocs \cup {NoOverride, DocCase, DocArray, DocNoCatchAll,
                    DocCatchAllFirst, DocEmpty}

\* The states of the bundled source assets/data/replies.json as fetch sees it
BundledStates == {"valid", "unreachable", "malformed"}

(* ------------------------------- sort --------------------------------- *)

\* (a.priority || 999): an absent priority and the priority 0 are both falsy
SortKey(rule) ==
    IF rule.hasPriority /\ rule.priority # 0 THEN rule.priority
    ELSE DefaultPriority

\* Insert, placing the rule ahead of the rules that compare equal to it
RECURSIVE InsertUnstable(_, _)
InsertUnstable(sorted, rule) ==
    IF sorted = <<>> THEN <<rule>>
    ELSE IF SortKey(Head(sorted)) - SortKey(rule) < 0
         THEN <<Head(sorted)>> \o InsertUnstable(Tail(sorted), rule)
         ELSE <<rule>> \o sorted

\* Array.prototype.sort is stable (ECMAScript 2019): a rule goes behind every
\* rule already placed whose comparison with it is zero or negative, so rules
\* that compare equal keep the order of the array.
RECURSIVE Insert(_, _)
Insert(sorted, rule) ==
    IF sorted = <<>> THEN <<rule>>
    ELSE IF SortKey(Head(sorted)) - SortKey(rule) <= 0
         THEN <<Head(sorted)>> \o Insert(Tail(sorted), rule)
         ELSE <<rule>> \o sorted

\* rules.sort((a, b) => (a.priority || 999) - (b.priority || 999))
RECURSIVE SortRules(_)
SortRules(rs) ==
    IF rs = <<>> THEN <<>>
    ELSE Insert(SortRules(SubSeq(rs, 1, Len(rs) - 1)), rs[Len(rs)])

(* ------------------------------ matcher ------------------------------- *)

\* matchesRule without the lower-casing of a case-insensitive rule
matchesRuleCaseExact(input, rule) ==
    IF IsCatchAll(rule) THEN TRUE
    ELSE IF rule.matchKind = "string" THEN input = rule.match[1]
    ELSE IF rule.matchKind = "array"
         THEN \E i \in DOMAIN rule.match : input = rule.match[i]
    ELSE FALSE

\* matchesRule without the catch-all branch
matchesRuleNoCatchAll(input, rule) ==
    LET processedInput == IF rule.caseSensitive THEN input ELSE toLowerCase(input)
        processed(m) == IF rule.caseSensitive THEN m ELSE toLowerCase(m)
    IN  IF rule.matchKind = "string" THEN processedInput = processed(rule.match[1])
        ELSE IF rule.matchKind = "array"
             THEN \E i \in DOMAIN rule.match : processedInput = processed(rule.match[i])
        ELSE FALSE

\* MessageMatcher.matchesRule(input, rule)
matchesRule(input, rule) ==
    LET processedInput == IF rule.caseSensitive THEN input ELSE toLowerCase(input)
        processed(m) == IF rule.caseSensitive THEN m ELSE toLowerCase(m)
    IN  IF IsCatchAll(rule) THEN TRUE
        ELSE IF rule.matchKind = "string" THEN processedInput = processed(rule.match[1])
        ELSE IF rule.matchKind = "array"
             THEN \E i \in DOMAIN rule.match : processedInput = processed(rule.match[i])
        ELSE FALSE

\* The result of findMatch: null, or the rule returned
Null == <<>>

\* The rules loop of findMatch: the first rule, in stored order, that matches
RECURSIVE FirstMatch(_, _)
FirstMatch(input, rs) ==
    IF rs = <<>> THEN Null
    ELSE IF matchesRule(input, Head(rs)) THEN <<Head(rs)>>
    ELSE FirstMatch(input, Tail(rs))

\* MessageMatcher.findMatch(userInput) on a matcher holding rs / loaded
findMatch(userInput, rs, loaded) ==
    IF ~loaded THEN Null
    ELSE LET input == trim(userInput)
         IN  IF input = <<>> THEN Null ELSE FirstMatch(input, rs)

(* ------------------------------- state -------------------------------- *)

\* The chat contexts (tabs showing index.html), each with one MessageMatcher
Contexts == {"tab1"}

VARIABLES
    localStore,   \* localStorage['chatRules']: the persisted override
    bundled,      \* the state of assets/data/replies.json
    writes,       \* writes of the override made so far by the admin surface
    rules,        \* rules[c]: MessageMatcher.rules
    isLoaded,     \* isLoaded[c]: MessageMatcher.isLoaded
    listeners,    \* listeners[c]: 'storage' listeners the matcher has added
    pending,      \* pending[c]: loadRules calls awaiting fetch, each with the
                  \*   kind of override it found
    events,       \* events[c]: storage events queued for c (their newValue)
    query,        \* the last findMatch call: its input, rule set and result
    notices       \* notices[c]: 'Chat rules updated' system messages shown

VARIABLES
    store,        \* localStorage['mockChatAssistant_v2'], parsed
    medium,       \* localStorage itself: "ok", "full" (writes throw) or
                  \*   "blocked" (every access throws)
    clock,        \* Date.now(): the instant of the last session store call
    returned      \* what the last direct call of a StorageManager method
                  \*   returned

VARIABLES
    isInitialized,   \* isInitialized[c]: ChatManager.isInitialized
    currentChatId,   \* currentChatId[c]: ChatManager.currentChatId
    isImageMode,     \* isImageMode[c]: UIManager.isImageMode
    messageHistory,  \* messageHistory[c]: ChatManager.messageHistory
    waiting,         \* waiting[c]: user messages in their response delay
    reply,           \* the last processInput call: input, rule set, response
    shown,           \* the last handleResponse call: what it served
    selectedChatId   \* selectedChatId[c]: SidebarManager.selectedChatId

matcherVars == <<localStore, bundled, writes, rules, isLoaded, listeners,
                 pending, events, query, notices>>

storeVars == <<store, medium, clock, returned>>

chatVars == <<isInitialized, currentChatId, isImageMode, messageHistory,
              waiting, reply, shown, selectedChatId>>

sessionVars == <<storeVars, chatVars>>

vars == <<matcherVars, sessionVars>>

\* A response object: { type, value, followup }
Response(type, value, followup) ==
    [type |-> type, value |-> value, followup |-> followup]

NoResponse == Response("none", "", <<>>)

\* No processInput call made yet
NoReply == [asked |-> FALSE, ctx |-> "none", input |-> <<>>, rules |-> <<>>,
            loaded |-> FALSE, matched |-> <<>>, response |-> NoResponse]

\* No handleResponse call made yet
NoShown == [handled |-> FALSE, ctx |-> "none", input |-> <<>>,
            imageMode |-> FALSE, rules |-> <<>>, matched |-> <<>>,
            response |-> NoResponse, final |-> NoResponse,
            message |-> [type |-> "none", content |-> <<>>,
                         responseType |-> "none", followup |-> <<>>],
            saved |-> FALSE]

NoQuery == [asked |-> FALSE, ctx |-> "none", input |-> <<>>, rules |-> <<>>,
            loaded |-> FALSE, result |-> Null]

\* constructor(): rules = [], isLoaded = false; nothing asked or queued yet
InitMatcher ==
    /\ writes = 0
    /\ rules = [c \in Contexts |-> <<>>]
    /\ isLoaded = [c \in Contexts |-> FALSE]
    /\ listeners = [c \in Contexts |-> 0]
    /\ pending = [c \in Contexts |-> <<>>]
    /\ events = [c \in Contexts |-> <<>>]
    /\ query = NoQuery
    /\ notices = [c \in Contexts |-> 0]

(* ------------------------------ loading ------------------------------- *)

\* A context has called loadRules at least once (App.init does on page load)
Started(c) == listeners[c] + Len(pending[c]) > 0

\* FinishLoad adding the loaded rules to the rules already held
FinishLoadMerging(c, rs) ==
    /\ rules' = [rules EXCEPT ![c] = SortRules(@ \o rs)]
    /\ isLoaded' = [isLoaded EXCEPT ![c] = TRUE]
    /\ listeners' = [listeners EXCEPT ![c] = @ + 1]

\* The assignments every completing path of loadRules makes:
\* this.rules = <sorted>; this.isLoaded = true; this.setupStorageListener()
FinishLoad(c, rs) ==
    /\ rules' = [rules EXCEPT ![c] = SortRules(rs)]
    /\ isLoaded' = [isLoaded EXCEPT ![c] = TRUE]
    /\ listeners' = [listeners EXCEPT ![c] = @ + 1]

\* What the synchronous part of loadRules does with the override it reads:
\* "use" its rules, "fetch" the bundled source, or "catch" the exception
OverrideBranch(doc) ==
    CASE doc.kind = "ok" -> "use"
      [] doc.kind = "unparseable" -> "catch"
      [] OTHER -> "fetch"

\* loadRules() up to its first await (reloadRules() is the same call); a
\* localStorage that throws on every access takes it to the catch block
LoadRules(c) ==
    /\ listeners[c] + Len(pending[c]) < MaxLoads
    /\ LET branch == IF medium = "blocked" THEN "catch"
                     ELSE OverrideBranch(localStore)
       IN  CASE branch = "use" ->
                  /\ FinishLoad(c, localStore.rules)
                  /\ UNCHANGED pending
             [] branch = "catch" ->
                  /\ FinishLoad(c, FallbackRules)
                  /\ UNCHANGED pending
             [] OTHER ->
                  /\ pending' = [pending EXCEPT ![c] = Append(@, localStore.kind)]
                  /\ UNCHANGED <<rules, isLoaded, listeners>>
    /\ UNCHANGED <<notices, localStore, bundled, writes, events, query>>
    /\ UNCHANGED sessionVars

\* loadRules() from the settling of fetch('assets/data/replies.json') on
FetchSettles(c) ==
    /\ \E i \in DOMAIN pending[c] :
          pending' = [pending EXCEPT ![c] =
                         SubSeq(@, 1, i - 1) \o SubSeq(@, i + 1, Len(@))]
    /\ IF bundled = "valid" THEN FinishLoad(c, BundledRules)
       ELSE FinishLoad(c, FallbackRules)
    /\ UNCHANGED <<notices, localStore, bundled, writes, events, query>>
    /\ UNCHANGED sessionVars

(* --------------------------- synchronisation -------------------------- *)

\* The storage event a write of the override queues in every started context,
\* when the value changes
Notify(newValue) ==
    events' = [c \in Contexts |->
                  IF Started(c) /\ newValue # localStore
                  THEN Append(events[c], newValue) ELSE events[c]]

\* The admin surface replaces the override wholesale
AdminSave(doc) ==
    /\ writes < MaxWrites
    /\ writes' = writes + 1
    /\ localStore' = doc
    /\ Notify(doc)
    /\ UNCHANGED <<notices, bundled, rules, isLoaded, listeners, pending, query>>
    /\ UNCHANGED sessionVars

\* The admin surface removes the override (reset to the default rules)
AdminReset ==
    /\ writes < MaxWrites
    /\ writes' = writes + 1
    /\ localStore' = NoOverride
    /\ Notify(NoOverride)
    /\ UNCHANGED <<notices, bundled, rules, isLoaded, listeners, pending, query>>
    /\ UNCHANGED sessionVars

\* A storage event for another key than 'chatRules'
ForeignEvent == Doc("otherkey", <<>>)

\* Another context runs StorageManager.init(): its test item 'test_storage'
\* is set, and every started context gets a storage event for that key
ForeignWrite ==
    /\ writes < MaxWrites
    /\ writes' = writes + 1
    /\ events' = [c \in Contexts |->
                     IF Started(c) THEN Append(events[c], ForeignEvent) ELSE events[c]]
    /\ UNCHANGED <<notices, localStore, bundled, rules, isLoaded, listeners, pending, query>>
    /\ UNCHANGED sessionVars

\* The listener applying every payload that is present, malformed or not
StorageListenerAppliesAny(c, newValue) ==
    listeners[c] > 0 /\ newValue.kind # "absent"

\* The listener listening from the construction of the matcher on
StorageListenerAppliesAlways(c, newValue) == newValue.kind = "ok"

\* The listener of setupStorageListener() applies to a 'chatRules' event
StorageListenerApplies(c, newValue) == listeners[c] > 0 /\ newValue.kind = "ok"

\* A dispatch that takes the removal of the override as a reset to the
\* embedded rules
StorageEventResetting(c) ==
    /\ events[c] # <<>>
    /\ events' = [events EXCEPT ![c] = Tail(@)]
    /\ rules' = [rules EXCEPT ![c] =
                    IF StorageListenerApplies(c, Head(events[c]))
                    THEN SortRules(Head(events[c]).rules)
                    ELSE IF listeners[c] > 0 /\ Head(events[c]).kind = "absent"
                    THEN SortRules(FallbackRules)
                    ELSE @]
    /\ notices' = [notices EXCEPT ![c] =
                      IF StorageListenerApplies(c, Head(events[c])) /\ isInitialized[c]
                      THEN @ + listeners[c] ELSE @]
    /\ UNCHANGED <<localStore, bundled, writes, isLoaded, listeners, pending, query>>
    /\ UNCHANGED sessionVars

\* A queued storage event is dispatched in c: every listener added so far
\* runs on it, within one task
StorageEvent(c) ==
    /\ events[c] # <<>>
    /\ events' = [events EXCEPT ![c] = Tail(@)]
    /\ rules' = [rules EXCEPT ![c] =
                    IF StorageListenerApplies(c, Head(events[c]))
                    THEN SortRules(Head(events[c]).rules) ELSE @]
    /\ notices' = [notices EXCEPT ![c] =
                      IF StorageListenerApplies(c, Head(events[c])) /\ isInitialized[c]
                      THEN @ + listeners[c] ELSE @]
    /\ UNCHANGED <<localStore, bundled, writes, isLoaded, listeners, pending, query>>
    /\ UNCHANGED sessionVars

(* ------------------------------ matching ------------------------------ *)

\* A caller invokes findMatch(userInput) on the matcher of c; calls are
\* synchronous, so one is in progress at a time
FindMatch(c, userInput) ==
    /\ query = NoQuery
    /\ query' = [asked |-> TRUE, ctx |-> c, input |-> userInput,
                 rules |-> rules[c], loaded |-> isLoaded[c],
                 result |-> findMatch(userInput, rules[c], isLoaded[c])]
    /\ UNCHANGED <<notices, localStore, bundled, writes, rules, isLoaded, listeners,
                   pending, events>>
    /\ UNCHANGED sessionVars

\* findMatch returns its result to the caller
ReturnMatch ==
    /\ query # NoQuery
    /\ query' = NoQuery
    /\ UNCHANGED <<notices, localStore, bundled, writes, rules, isLoaded, listeners,
                   pending, events>>
    /\ UNCHANGED sessionVars

\* MessageMatcher.isReady()
isReady(c) == isLoaded[c]

\* MessageMatcher.getAllRules()
getAllRules(c) == rules[c]

\* MessageMatcher.getRulesSource(): localStorage.getItem('chatRules') read
\* at the time of the call
getRulesSource(c) ==
    LET localRules == localStore.kind # "absent"
    IN  [hasLocalStorage |-> localRules,
         rulesCount |-> Len(rules[c]),
         source |-> IF localRules THEN "localStorage" ELSE "JSON file or fallback"]

(* ---------------------------- session store --------------------------- *)

\* StorageManager: the most chats kept, and the most messages kept per chat
maxChats == 50

maxMessagesPerChat == 100

\* generateChatTitle: the characters of the message a title takes
TitleLimit == 30

\* null as a chat id
NoChat == 0

\* The instant the behaviours start at.  Chats and messages a store holds at
\* the start have ids below it ('chat_<Date.now()>_<random>' ids are modelled
\* by the instant alone); Epoch itself is the id of no chat.
Epoch == maxChats + maxMessagesPerChat + 1

UnknownChat == Epoch

\* title: 'New Chat'
NewChatTitle == <<"New Chat">>

\* getStorageData() giving null: no item under the storage key
NoData == [present |-> FALSE, chats |-> <<>>, currentChatId |-> NoChat]

\* initializeStorage(): { chats: [], currentChatId: null, settings }
InitialData == [present |-> TRUE, chats |-> <<>>, currentChatId |-> NoChat]

\* What getStorageData() reads when localStorage holds stored: null when
\* localStorage throws or holds no item
Read(stored) == IF medium = "blocked" THEN NoData ELSE stored

\* What localStorage holds after saveStorageData(data): setItem, its
\* exception caught
Persist(stored, data) == IF medium = "ok" THEN data ELSE stored

\* getStorageData()
getStorageData == Read(store)

\* isAvailable(): a test item can be set and removed
isAvailable == medium = "ok"

\* saveStorageData(data)
saveStorageData(data) == store' = Persist(store, data)

\* The message objects callers hand to addMessageToChat; a user message has
\* no responseType and no followup ("none", <<>>)
UserMessage(content) ==
    [type |-> "user", content |-> content, responseType |-> "none",
     followup |-> <<>>]

AssistantMessage(content, responseType, followup) ==
    [type |-> "assistant", content |-> content, responseType |-> responseType,
     followup |-> followup]

\* messageWithMeta: { id, timestamp, ...message }
MessageWithMeta(message, now) ==
    [id |-> now, timestamp |-> now, type |-> message.type,
     content |-> message.content, responseType |-> message.responseType,
     followup |-> message.followup]

\* String.prototype.toUpperCase, one character
UpperChar(ch) == IF ch = "a" THEN "A" ELSE IF ch = "b" THEN "B" ELSE ch

\* title.replace(/\s+/g, ' ')
RECURSIVE CollapseBlanks(_)
CollapseBlanks(s) ==
    IF Len(s) < 2 THEN s
    ELSE IF IsWhitespace(s[1]) /\ IsWhitespace(s[2]) THEN CollapseBlanks(Tail(s))
    ELSE <<s[1]>> \o CollapseBlanks(Tail(s))

\* generateChatTitle(content)
generateChatTitle(content) ==
    LET trimmed == trim(content)
        cut == SubSeq(trimmed, 1, IF Len(trimmed) < TitleLimit THEN Len(trimmed)
                                  ELSE TitleLimit)
        clean == CollapseBlanks(cut)
        dotted == IF Len(content) > TitleLimit THEN clean \o <<".", ".", ".">>
                  ELSE clean
    IN  IF dotted = <<>> THEN NewChatTitle
        ELSE <<UpperChar(dotted[1])>> \o Tail(dotted)

\* data.chats.findIndex(c => c.id === chatId), 0 for -1
IndexOfChat(chats, chatId) ==
    IF \E i \in DOMAIN chats : chats[i].id = chatId
    THEN CHOOSE i \in DOMAIN chats :
             chats[i].id = chatId /\ \A j \in 1..(i - 1) : chats[j].id # chatId
    ELSE 0

\* getChat(chatId) finds a chat
HasChat(data, chatId) == data.present /\ IndexOfChat(data.chats, chatId) > 0

\* A limit that keeps the newest chats of the list but one, the new chat lost
LimitChatsDropNewest(chats) ==
    IF Len(chats) > maxChats THEN SubSeq(chats, 2, Len(chats)) ELSE chats

\* if (data.chats.length > this.maxChats) data.chats = data.chats.slice(0, maxChats)
LimitChats(chats) ==
    IF Len(chats) > maxChats THEN SubSeq(chats, 1, maxChats) ELSE chats

\* createNewChat() on the data read, at the instant now
createNewChat(data, now) ==
    LET chat == [id |-> now, title |-> NewChatTitle, messages |-> <<>>,
                 created |-> now, updated |-> now, messageCount |-> 0]
    IN  [data EXCEPT !.chats = LimitChats(<<chat>> \o @),
                     !.currentChatId = now]

\* messages.slice(0, n): the oldest n messages
SliceFirst(messages, n) == SubSeq(messages, 1, n)

\* messages.slice(-n): the newest n messages
SliceLast(messages, n) == SubSeq(messages, Len(messages) - n + 1, Len(messages))

\* A limit that cuts the messages and leaves messageCount as it was
LimitMessagesStaleCount(chat) ==
    IF Len(chat.messages) > maxMessagesPerChat
    THEN [chat EXCEPT !.messages = SliceLast(@, maxMessagesPerChat)]
    ELSE chat

\* if (chat.messages.length > max) { messages = messages.slice(-max); messageCount = length }
LimitMessages(chat) ==
    IF Len(chat.messages) > maxMessagesPerChat
    THEN [chat EXCEPT !.messages = SliceLast(@, maxMessagesPerChat),
                      !.messageCount = maxMessagesPerChat]
    ELSE chat

\* addMessageToChat deriving the title from every user message
addMessageToChatRetitling(data, chatId, message, now) ==
    LET i == IndexOfChat(data.chats, chatId)
        chat == data.chats[i]
        pushed == [chat EXCEPT !.messages = Append(@, MessageWithMeta(message, now)),
                               !.messageCount = Len(chat.messages) + 1,
                               !.updated = now]
        titled == IF /\ message.type = "user"
                     /\ message.content # <<>>
                  THEN [pushed EXCEPT !.title = generateChatTitle(message.content)]
                  ELSE pushed
    IN  [data EXCEPT !.chats[i] = LimitMessages(titled)]

\* addMessageToChat(chatId, message) on the data read, for a chat it finds
addMessageToChat(data, chatId, message, now) ==
    LET i == IndexOfChat(data.chats, chatId)
        chat == data.chats[i]
        pushed == [chat EXCEPT !.messages = Append(@, MessageWithMeta(message, now)),
                               !.messageCount = Len(chat.messages) + 1,
                               !.updated = now]
        titled == IF /\ pushed.title = NewChatTitle
                     /\ message.type = "user"
                     /\ message.content # <<>>
                  THEN [pushed EXCEPT !.title = generateChatTitle(message.content)]
                  ELSE pushed
    IN  [data EXCEPT !.chats[i] = LimitMessages(titled)]

\* deleteChat that removes the chat and leaves the current pointer alone
deleteChatKeepingPointer(data, chatId) ==
    LET i == IndexOfChat(data.chats, chatId)
    IN  [data EXCEPT !.chats = SubSeq(@, 1, i - 1) \o SubSeq(@, i + 1, Len(@))]

\* deleteChat(chatId) on the data read, for a chat it finds
deleteChat(data, chatId) ==
    LET i == IndexOfChat(data.chats, chatId)
    IN  [data EXCEPT !.chats = SubSeq(@, 1, i - 1) \o SubSeq(@, i + 1, Len(@)),
                     !.currentChatId = IF @ = chatId THEN NoChat ELSE @]

\* clearAllChats() on the data read
clearAllChats(data) == [data EXCEPT !.chats = <<>>, !.currentChatId = NoChat]

\* setCurrentChat dropping the newest message of the chat it selects
setCurrentChatDroppingNewest(data, chatId) ==
    [data EXCEPT !.currentChatId = chatId,
                 !.chats = [i \in DOMAIN data.chats |->
                               LET chat == data.chats[i]
                               IN  IF chat.id = chatId /\ chat.messages # <<>>
                                   THEN [chat EXCEPT
                                            !.messages = SubSeq(@, 1, Len(@) - 1),
                                            !.messageCount = @ - 1]
                                   ELSE chat]]

\* setCurrentChat(chatId) on the data read
setCurrentChat(data, chatId) == [data EXCEPT !.currentChatId = chatId]

\* What a direct call returned: the method, true/false (null as false), and
\* the chat id returned or addressed
Returned(call, ok, id) == [call |-> call, ok |-> ok, id |-> id]

NothingReturned == Returned("none", FALSE, NoChat)

\* Each direct call happens at a later instant
Tick ==
    /\ clock < Epoch + MaxClock
    /\ clock' = clock + 1

\* The chat ids callers pass: the newest and the oldest chat, the persisted
\* current chat, and the id of no chat
ChatIdInputs ==
    {UnknownChat, store.currentChatId}
        \cup {store.chats[i].id : i \in (DOMAIN store.chats) \cap {1, Len(store.chats)}}

\* The messages callers pass
MessageInputs ==
    {UserMessage(<<"a", " ", "b">>), AssistantMessage(<<"x1">>, "text", <<>>)}

\* StorageManager.init()
StorageInit ==
    /\ returned' = Returned("init", medium = "ok", NoChat)
    /\ IF medium = "ok" /\ ~getStorageData.present
       THEN saveStorageData(InitialData)
       ELSE UNCHANGED store
    /\ UNCHANGED <<medium, clock>>
    /\ UNCHANGED <<matcherVars, chatVars>>

\* StorageManager.createNewChat()
CreateNewChat ==
    /\ Tick
    /\ LET data == getStorageData
       IN  IF ~data.present
           THEN /\ returned' = Returned("createNewChat", FALSE, NoChat)
                /\ UNCHANGED store
           ELSE /\ returned' = Returned("createNewChat", TRUE, clock')
                /\ saveStorageData(createNewChat(data, clock'))
    /\ UNCHANGED medium
    /\ UNCHANGED <<matcherVars, chatVars>>

\* StorageManager.addMessageToChat(chatId, message)
AddMessageToChat(chatId, message) ==
    /\ Tick
    /\ LET data == getStorageData
       IN  IF ~HasChat(data, chatId)
           THEN /\ returned' = Returned("addMessageToChat", FALSE, chatId)
                /\ UNCHANGED store
           ELSE /\ returned' = Returned("addMessageToChat", TRUE, chatId)
                /\ saveStorageData(addMessageToChat(data, chatId, message, clock'))
    /\ UNCHANGED medium
    /\ UNCHANGED <<matcherVars, chatVars>>

\* deleteChat that clears the current pointer before it looks for the chat
DeleteChatClearingFirst(chatId) ==
    /\ Tick
    /\ LET data == getStorageData
       IN  IF ~data.present
           THEN /\ returned' = Returned("deleteChat", FALSE, chatId)
                /\ UNCHANGED store
           ELSE IF ~HasChat(data, chatId)
           THEN /\ returned' = Returned("deleteChat", FALSE, chatId)
                /\ saveStorageData([data EXCEPT !.currentChatId = NoChat])
           ELSE /\ returned' = Returned("deleteChat", TRUE, chatId)
                /\ saveStorageData(deleteChat(data, chatId))
    /\ UNCHANGED medium
    /\ UNCHANGED <<matcherVars, chatVars>>

\* StorageManager.deleteChat(chatId)
DeleteChat(chatId) ==
    /\ Tick
    /\ LET data == getStorageData
       IN  IF ~HasChat(data, chatId)
           THEN /\ returned' = Returned("deleteChat", FALSE, chatId)
                /\ UNCHANGED store
           ELSE /\ returned' = Returned("deleteChat", TRUE, chatId)
                /\ saveStorageData(deleteChat(data, chatId))
    /\ UNCHANGED medium
    /\ UNCHANGED <<matcherVars, chatVars>>

\* StorageManager.clearAllChats()
ClearAllChats ==
    /\ Tick
    /\ LET data == getStorageData
       IN  IF ~data.present
           THEN /\ returned' = Returned("clearAllChats", FALSE, NoChat)
                /\ UNCHANGED store
           ELSE /\ returned' = Returned("clearAllChats", TRUE, NoChat)
                /\ saveStorageData(clearAllChats(data))
    /\ UNCHANGED medium
    /\ UNCHANGED <<matcherVars, chatVars>>

\* StorageManager.setCurrentChat(chatId)
SetCurrentChat(chatId) ==
    /\ Tick
    /\ LET data == getStorageData
       IN  IF ~data.present
           THEN /\ returned' = Returned("setCurrentChat", FALSE, chatId)
                /\ UNCHANGED store
           ELSE /\ returned' = Returned("setCurrentChat", TRUE, chatId)
                /\ saveStorageData(setCurrentChat(data, chatId))
    /\ UNCHANGED medium
    /\ UNCHANGED <<matcherVars, chatVars>>

\* new StorageManager() over a localStorage that holds no chats item yet
InitStore ==
    /\ store = NoData
    /\ medium = "ok"
    /\ clock = Epoch
    /\ returned = NothingReturned

\* new ChatManager(), new UIManager(): nothing initialised, text mode
InitChat ==
    /\ isInitialized = [c \in Contexts |-> FALSE]
    /\ currentChatId = [c \in Contexts |-> NoChat]
    /\ isImageMode = [c \in Contexts |-> FALSE]
    /\ messageHistory = [c \in Contexts |-> <<>>]
    /\ waiting = [c \in Contexts |-> <<>>]
    /\ reply = NoReply
    /\ shown = NoShown
    /\ selectedChatId = [c \in Contexts |-> NoChat]

\* The chats a store holds at the start: n chats created at the instants
\* 1..n, the newest first, the newest holding k user messages "a"
Populated(n, k, cur) ==
    [present |-> TRUE,
     chats |-> [i \in 1..n |->
                  LET id == n + 1 - i
                      first == i = 1 /\ k > 0
                  IN  [id |-> id,
                       title |-> IF first THEN <<"A">> ELSE NewChatTitle,
                       messages |-> IF i = 1
                                    THEN [j \in 1..k |->
                                            MessageWithMeta(UserMessage(<<"a">>), n + j)]
                                    ELSE <<>>,
                       created |-> id,
                       updated |-> IF first THEN n + k ELSE id,
                       messageCount |-> IF i = 1 THEN k ELSE 0]],
     currentChatId |-> cur]

\* The persisted session collections the store behaviours start from:
\* none, an empty one, and ones at and just below the two limits
StoredSessions ==
    {NoData, InitialData}
        \cup {Populated(n, k, cur) :
                 n \in {2, maxChats - 1, maxChats},
                 k \in {0, maxMessagesPerChat - 1, maxMessagesPerChat},
                 cur \in {NoChat, 1}}

(* ---------------------------- chat manager ---------------------------- *)

\* The value of the built-in response of getResponse for no rule
ApologyValue == "I didn't understand that. Please try again."

\* getResponse returning nothing usable when no rule matched
getResponseNoApology(matched) ==
    IF matched = Null THEN NoResponse
    ELSE Response(matched[1].type, matched[1].value, matched[1].followup)

\* MessageMatcher.getResponse(rule)
getResponse(matched) ==
    IF matched = Null THEN Response("text", ApologyValue, <<>>)
    ELSE Response(matched[1].type, matched[1].value, matched[1].followup)

\* MessageMatcher.processInput(userInput) on a matcher holding rs / loaded
processInput(userInput, rs, loaded) == getResponse(findMatch(userInput, rs, loaded))

\* rule.match.includes(keyword): the keyword occurs in a string match, or is
\* an element of an array match
Includes(rule, keyword) ==
    IF rule.matchKind = "string"
    THEN \E k \in DOMAIN rule.match[1] : rule.match[1][k] = keyword
    ELSE \E i \in DOMAIN rule.match : rule.match[i] = <<keyword>>

\* The filter of genericImageRules
IsGenericImageRule(rule) ==
    rule.type = "image" /\ (Includes(rule, "demo") \/ Includes(rule, "screenshot"))

\* The first loop of findImageAlternative: the first image rule, in stored
\* order, that matchesRule accepts for the message
RECURSIVE FirstImageMatch(_, _)
FirstImageMatch(userMessage, rs) ==
    IF rs = <<>> THEN Null
    ELSE IF Head(rs).type = "image" /\ matchesRule(userMessage, Head(rs))
         THEN <<Head(rs)>>
    ELSE FirstImageMatch(userMessage, Tail(rs))

\* The image response findImageAlternative builds: { type: 'image', value }
ImageResponse(rule) == Response("image", rule.value, <<>>)

\* findImageAlternative taking any image rule as a generic one
findImageAlternativeAnyImage(userMessage, rs) ==
    LET matching == FirstImageMatch(userMessage, rs)
        images == SelectSeq(rs, LAMBDA rule : rule.type = "image")
    IN  IF matching # Null THEN <<ImageResponse(matching[1])>>
        ELSE IF images # <<>> THEN <<ImageResponse(images[1])>>
        ELSE Null

\* findImageAlternative looking for a generic image rule first
findImageAlternativeGenericFirst(userMessage, rs) ==
    LET matching == FirstImageMatch(userMessage, rs)
        genericImageRules == SelectSeq(rs, IsGenericImageRule)
    IN  IF genericImageRules # <<>> THEN <<ImageResponse(genericImageRules[1])>>
        ELSE IF matching # Null THEN <<ImageResponse(matching[1])>>
        ELSE Null

\* ChatManager.findImageAlternative(userMessage) over getAllRules()
findImageAlternative(userMessage, rs) ==
    LET matching == FirstImageMatch(userMessage, rs)
        genericImageRules == SelectSeq(rs, IsGenericImageRule)
    IN  IF matching # Null THEN <<ImageResponse(matching[1])>>
        ELSE IF genericImageRules # <<>> THEN <<ImageResponse(genericImageRules[1])>>
        ELSE Null

\* The decision of handleResponse: finalResponse and shouldShowImage
FinalResponse(response, originalMessage, imageMode, rs) ==
    LET alternative == IF imageMode /\ response.type = "text"
                       THEN findImageAlternative(originalMessage, rs)
                       ELSE Null
    IN  [final |-> IF alternative # Null THEN alternative[1] ELSE response,
         shouldShowImage |-> alternative # Null \/ response.type = "image"]

\* The messages submitted to the chat manager: blank, padded with a blank,
\* literal matches of the rule documents in either case, and no match
Messages == {<<" ">>, <<"a">>, <<" ", "a">>, <<"b">>, <<"a", "b">>}

\* ChatManager.init() from the completion of its loadRules call on
ChatInit(c) ==
    /\ isLoaded[c]
    /\ ~isInitialized[c]
    /\ isInitialized' = [isInitialized EXCEPT ![c] = TRUE]
    /\ UNCHANGED <<selectedChatId, currentChatId, isImageMode, messageHistory, waiting, reply, shown>>
    /\ UNCHANGED <<matcherVars, storeVars>>

\* UIManager.toggleMode()
ToggleMode(c) ==
    /\ isImageMode' = [isImageMode EXCEPT ![c] = ~@]
    /\ UNCHANGED <<selectedChatId, isInitialized, currentChatId, messageHistory, waiting, reply, shown>>
    /\ UNCHANGED <<matcherVars, storeVars>>

\* A test that has processUserMessage create a chat for every message
NeedsNewChatAlways(c) == TRUE

\* if (!this.currentChatId)
NeedsNewChat(c) == currentChatId[c] = NoChat

\* ChatManager.processUserMessage(userMessage) up to its await of the delay;
\* the model lets one message of a context wait at a time
ProcessUserMessage(c, userMessage) ==
    /\ isInitialized[c]
    /\ waiting[c] = <<>>
    /\ Tick
    /\ LET create == NeedsNewChat(c)
           created == create /\ Read(store).present
           afterCreate == IF created
                          THEN Persist(store, createNewChat(Read(store), clock'))
                          ELSE store
           chatId == IF created THEN clock' ELSE currentChatId[c]
           afterAdd == IF HasChat(Read(afterCreate), chatId)
                       THEN Persist(afterCreate,
                                    addMessageToChat(Read(afterCreate), chatId,
                                                     UserMessage(userMessage), clock'))
                       ELSE afterCreate
       IN  /\ store' = afterAdd
           /\ currentChatId' = [currentChatId EXCEPT ![c] = chatId]
    /\ messageHistory' = [messageHistory EXCEPT ![c] = Append(@, UserMessage(userMessage))]
    /\ waiting' = [waiting EXCEPT ![c] = Append(@, userMessage)]
    /\ UNCHANGED <<selectedChatId, medium, returned, isInitialized, isImageMode, reply, shown>>
    /\ UNCHANGED matcherVars

\* ChatManager.processUserMessage from the end of the delay on: processInput,
\* then handleResponse(response, userMessage)
DelayElapses(c) ==
    /\ waiting[c] # <<>>
    /\ Tick
    /\ LET userMessage == Head(waiting[c])
           matched == findMatch(userMessage, rules[c], isLoaded[c])
           response == getResponse(matched)
           handled == FinalResponse(response, userMessage, isImageMode[c], getAllRules(c))
           message == AssistantMessage(<<handled.final.value>>,
                                       IF handled.shouldShowImage THEN "image" ELSE "text",
                                       handled.final.followup)
           chatId == currentChatId[c]
           saved == chatId # NoChat /\ HasChat(getStorageData, chatId)
       IN  /\ reply' = [asked |-> TRUE, ctx |-> c, input |-> userMessage,
                        rules |-> rules[c], loaded |-> isLoaded[c],
                        matched |-> matched, response |-> response]
           /\ shown' = [handled |-> TRUE, ctx |-> c, input |-> userMessage,
                        imageMode |-> isImageMode[c], rules |-> rules[c],
                        matched |-> matched, response |-> response,
                        final |-> handled.final, message |-> message,
                        saved |-> saved]
           /\ IF saved
              THEN saveStorageData(addMessageToChat(getStorageData, chatId, message, clock'))
              ELSE UNCHANGED store
           /\ messageHistory' = [messageHistory EXCEPT ![c] = Append(@, message)]
    /\ waiting' = [waiting EXCEPT ![c] = Tail(@)]
    /\ UNCHANGED <<selectedChatId, medium, returned, isInitialized, currentChatId, isImageMode>>
    /\ UNCHANGED matcherVars

\* A caller invokes processInput(userInput) on the matcher of c
ProcessInput(c, userInput) ==
    /\ reply = NoReply
    /\ reply' = [asked |-> TRUE, ctx |-> c, input |-> userInput,
                 rules |-> rules[c], loaded |-> isLoaded[c],
                 matched |-> findMatch(userInput, rules[c], isLoaded[c]),
                 response |-> processInput(userInput, rules[c], isLoaded[c])]
    /\ UNCHANGED <<selectedChatId, isInitialized, currentChatId, isImageMode, messageHistory, waiting, shown>>
    /\ UNCHANGED <<matcherVars, storeVars>>

\* The response has been returned and shown
ResponseReturns ==
    /\ reply # NoReply
    /\ reply' = NoReply
    /\ shown' = NoShown
    /\ UNCHANGED <<selectedChatId, isInitialized, currentChatId, isImageMode, messageHistory, waiting>>
    /\ UNCHANGED <<matcherVars, storeVars>>

\* UIManager.handleFollowupSuggestion(suggestion) for a suggestion shown
\* under an assistant message: handleSendMessage trims it and hands it to
\* processUserMessage
HandleFollowupSuggestion(c) ==
    \E k \in DOMAIN messageHistory[c] :
        \E n \in DOMAIN messageHistory[c][k].followup :
            LET message == trim(messageHistory[c][k].followup[n])
            IN  /\ message # <<>>
                /\ ProcessUserMessage(c, message)

\* What ChatManager.loadChat keeps of the stored messages (the id and the
\* timestamp it also keeps are read by nothing)
HistoryOf(messages) ==
    [k \in DOMAIN messages |->
        [type |-> messages[k].type, content |-> messages[k].content,
         responseType |-> messages[k].responseType,
         followup |-> messages[k].followup]]

\* selectChat that leaves the persisted current chat as it is
selectChatNotPersisting(c, stored, selected, chatId) ==
    LET data == Read(stored)
    IN  IF ~HasChat(data, chatId)
        THEN /\ store' = stored
             /\ selectedChatId' = [selectedChatId EXCEPT ![c] = selected]
             /\ UNCHANGED <<currentChatId, messageHistory>>
        ELSE /\ selectedChatId' = [selectedChatId EXCEPT ![c] = chatId]
             /\ currentChatId' = [currentChatId EXCEPT ![c] = chatId]
             /\ messageHistory' =
                    [messageHistory EXCEPT ![c] =
                        HistoryOf(data.chats[IndexOfChat(data.chats, chatId)].messages)]
             /\ store' = stored

\* SidebarManager.selectChat(chatId) over the stored item `stored` left by
\* the earlier calls of the same handler, with `selected` the selection it
\* finds: getChat, then ChatManager.loadChat, then setCurrentChat
selectChat(c, stored, selected, chatId) ==
    LET data == Read(stored)
    IN  IF ~HasChat(data, chatId)
        THEN /\ store' = stored
             /\ selectedChatId' = [selectedChatId EXCEPT ![c] = selected]
             /\ UNCHANGED <<currentChatId, messageHistory>>
        ELSE /\ selectedChatId' = [selectedChatId EXCEPT ![c] = chatId]
             /\ currentChatId' = [currentChatId EXCEPT ![c] = chatId]
             /\ messageHistory' =
                    [messageHistory EXCEPT ![c] =
                        HistoryOf(data.chats[IndexOfChat(data.chats, chatId)].messages)]
             /\ store' = Persist(stored, setCurrentChat(data, chatId))

\* The user clicks a chat of the sidebar list: SidebarManager.selectChat
SelectChat(c, chatId) ==
    /\ isInitialized[c]
    /\ selectChat(c, store, selectedChatId[c], chatId)
    /\ UNCHANGED <<medium, clock, returned>>
    /\ UNCHANGED <<isInitialized, isImageMode, waiting, reply, shown>>
    /\ UNCHANGED matcherVars

\* The user clicks 'New chat': SidebarManager.createNewChat()
SidebarCreateNewChat(c) ==
    /\ isInitialized[c]
    /\ Tick
    /\ IF ~Read(store).present
       THEN UNCHANGED <<store, selectedChatId, currentChatId, messageHistory>>
       ELSE selectChat(c, Persist(store, createNewChat(Read(store), clock')),
                       selectedChatId[c], clock')
    /\ UNCHANGED <<medium, returned>>
    /\ UNCHANGED <<isInitialized, isImageMode, waiting, reply, shown>>
    /\ UNCHANGED matcherVars

\* The user confirms the deletion of a chat: SidebarManager.deleteChat(chatId)
SidebarDeleteChat(c, chatId) ==
    /\ isInitialized[c]
    /\ Tick
    /\ IF ~HasChat(Read(store), chatId)
       THEN UNCHANGED <<store, selectedChatId, currentChatId, messageHistory>>
       ELSE LET deleted == Persist(store, deleteChat(Read(store), chatId))
            IN  IF chatId = selectedChatId[c] /\ Read(deleted).present
                THEN selectChat(c, Persist(deleted, createNewChat(Read(deleted), clock')),
                                selectedChatId[c], clock')
                ELSE /\ store' = deleted
                     /\ UNCHANGED <<selectedChatId, currentChatId, messageHistory>>
    /\ UNCHANGED <<medium, returned>>
    /\ UNCHANGED <<isInitialized, isImageMode, waiting, reply, shown>>
    /\ UNCHANGED matcherVars

\* The user confirms 'Clear all': SidebarManager.showClearAllConfirmation(),
\* clearAllChats()
SidebarClearAllChats(c) ==
    /\ isInitialized[c]
    /\ Tick
    /\ IF Read(store).chats = <<>>
       THEN UNCHANGED <<store, selectedChatId, currentChatId, messageHistory>>
       ELSE LET cleared == Persist(store, clearAllChats(Read(store)))
            IN  IF Read(cleared).present
                THEN selectChat(c, Persist(cleared, createNewChat(Read(cleared), clock')),
                                NoChat, clock')
                ELSE /\ store' = cleared
                     /\ selectedChatId' = [selectedChatId EXCEPT ![c] = NoChat]
                     /\ UNCHANGED <<currentChatId, messageHistory>>
    /\ UNCHANGED <<medium, returned>>
    /\ UNCHANGED <<isInitialized, isImageMode, waiting, reply, shown>>
    /\ UNCHANGED matcherVars

\* App.init() from the completion of the loadRules call of ChatManager.init
\* on: the manager is initialised, then App.initializeChat() resumes the
\* persisted current chat, else the first chat of the list, else starts a
\* new chat
AppInit(c) ==
    /\ isLoaded[c]
    /\ ~isInitialized[c]
    /\ isInitialized' = [isInitialized EXCEPT ![c] = TRUE]
    /\ Tick
    /\ LET data == Read(store)
       IN  IF ~isAvailable
           THEN /\ currentChatId' =
                    [currentChatId EXCEPT ![c] = IF data.present THEN clock' ELSE NoChat]
                /\ messageHistory' = [messageHistory EXCEPT ![c] = <<>>]
                /\ store' = IF data.present
                            THEN Persist(store, createNewChat(data, clock'))
                            ELSE store
                /\ UNCHANGED selectedChatId
           ELSE IF data.currentChatId # NoChat /\ HasChat(data, data.currentChatId)
           THEN selectChat(c, store, selectedChatId[c], data.currentChatId)
           ELSE IF data.chats # <<>>
           THEN selectChat(c, store, selectedChatId[c], data.chats[1].id)
           ELSE IF data.present
           THEN selectChat(c, Persist(store, createNewChat(data, clock')),
                           selectedChatId[c], clock')
           ELSE /\ currentChatId' = [currentChatId EXCEPT ![c] = NoChat]
                /\ messageHistory' = [messageHistory EXCEPT ![c] = <<>>]
                /\ UNCHANGED <<store, selectedChatId>>
    /\ UNCHANGED <<medium, returned>>
    /\ UNCHANGED <<isImageMode, waiting, reply, shown>>
    /\ UNCHANGED matcherVars

(* --------------------------- specifications --------------------------- *)

\* One matcher loads from fixed sources and is asked for matches
InitMatch ==
    /\ localStore \in LoadDocs
    /\ bundled \in BundledStates
    /\ InitMatcher
    /\ InitStore
    /\ InitChat

NextMatch ==
    \/ \E c \in Contexts : LoadRules(c)
    \/ \E c \in Contexts : FetchSettles(c)
    \/ \E c \in Contexts, userInput \in Inputs : FindMatch(c, userInput)
    \/ ReturnMatch

SpecMatch == InitMatch /\ [][NextMatch]_vars

\* Contexts load and reload while the admin surface rewrites the override
InitSync ==
    /\ localStore \in AdminDocs \cup {NoOverride}
    /\ bundled \in BundledStates
    /\ InitMatcher
    /\ InitStore
    /\ InitChat

NextSync ==
    \/ \E c \in Contexts : LoadRules(c)
    \/ \E c \in Contexts : FetchSettles(c)
    \/ \E doc \in AdminDocs : AdminSave(doc)
    \/ AdminReset
    \/ \E c \in Contexts : StorageEvent(c)

SpecSync == InitSync /\ [][NextSync]_vars

\* A chat context loads, reloads and is initialised while the admin surface
\* rewrites or removes the override and another context writes other items
NextNotices ==
    \/ \E c \in Contexts : LoadRules(c)
    \/ \E c \in Contexts : FetchSettles(c)
    \/ \E c \in Contexts : ChatInit(c)
    \/ \E doc \in AdminDocs : AdminSave(doc)
    \/ AdminReset
    \/ ForeignWrite
    \/ \E c \in Contexts : StorageEvent(c)

SpecNotices == InitSync /\ [][NextNotices]_vars

\* Callers use the session store over a working localStorage
InitSessions ==
    /\ store \in StoredSessions
    /\ medium = "ok"
    /\ clock = Epoch
    /\ returned = NothingReturned
    /\ localStore = NoOverride
    /\ bundled = "valid"
    /\ InitMatcher
    /\ InitChat

NextSessions ==
    \/ StorageInit
    \/ CreateNewChat
    \/ \E chatId \in ChatIdInputs, message \in MessageInputs :
           AddMessageToChat(chatId, message)
    \/ \E chatId \in ChatIdInputs : DeleteChat(chatId)
    \/ ClearAllChats
    \/ \E chatId \in ChatIdInputs : SetCurrentChat(chatId)

SpecSessions == InitSessions /\ [][NextSessions]_vars

\* Callers use the session store over a collection of two sessions, one of
\* them empty, at or just below the message cap
InitAppends ==
    /\ InitSessions
    /\ store \in {Populated(2, k, cur) :
                     k \in {0, maxMessagesPerChat - 1, maxMessagesPerChat},
                     cur \in {NoChat, 1}}

SpecAppends == InitAppends /\ [][NextSessions]_vars

\* The first messages callers pass to a chat still titled 'New Chat': one of
\* 37 characters, its first 30 characters, its first 31, and short ones
LongContent ==
    <<"H", "e", "l", "l", "o", " ", "t", "h", "e", "r", "e", ",", " ", "h", "o",
      "w", " ", "a", "r", "e", " ", "y", "o", "u", " ", "d", "o", "i", "n", "g",
      " ", "t", "o", "d", "a", "y", "?">>

TitleContents ==
    {LongContent, SubSeq(LongContent, 1, TitleLimit),
     SubSeq(LongContent, 1, TitleLimit + 1), <<"a", "b">>, <<"b">>}

\* Callers create chats and add first messages of several lengths
InitTitles ==
    /\ InitSessions
    /\ store \in {NoData, Populated(2, 0, NoChat)}

NextTitles ==
    \/ StorageInit
    \/ CreateNewChat
    \/ \E chatId \in ChatIdInputs, content \in TitleContents :
           AddMessageToChat(chatId, UserMessage(content))
    \/ \E chatId \in ChatIdInputs :
           AddMessageToChat(chatId, AssistantMessage(<<"x1">>, "text", <<>>))

SpecTitles == InitTitles /\ [][NextTitles]_vars

\* The store and a chat context over a localStorage that rejects writes
\* ("full") or every access ("blocked"), holding nothing or the sessions of
\* an earlier visit
InitDegraded ==
    /\ store \in {NoData, Populated(2, 0, 1)}
    /\ medium \in {"full", "blocked"}
    /\ clock = Epoch
    /\ returned = NothingReturned
    /\ localStore = NoOverride
    /\ bundled \in {"valid", "unreachable"}
    /\ InitMatcher
    /\ InitChat

NextDegraded ==
    \/ StorageInit
    \/ CreateNewChat
    \/ \E chatId \in ChatIdInputs, message \in MessageInputs :
           AddMessageToChat(chatId, message)
    \/ \E chatId \in ChatIdInputs : DeleteChat(chatId)
    \/ ClearAllChats
    \/ \E chatId \in ChatIdInputs : SetCurrentChat(chatId)
    \/ \E c \in Contexts : LoadRules(c)
    \/ \E c \in Contexts : FetchSettles(c)
    \/ \E c \in Contexts : ChatInit(c)
    \/ \E c \in Contexts : ProcessUserMessage(c, <<"a">>)
    \/ \E c \in Contexts : DelayElapses(c)
    \/ ResponseReturns

SpecDegraded == InitDegraded /\ [][NextDegraded]_vars

\* A chat context loads its rules, is initialised and answers messages
\* while the admin surface replaces the override
ChatDocs ==
    {NoOverride, DocTies, DocZero, DocNoCatchAll, DocCatchAllFirst, DocDemo, DocPlain}

InitChats ==
    /\ localStore \in ChatDocs
    /\ bundled = "unreachable"
    /\ InitMatcher
    /\ store = InitialData
    /\ medium = "ok"
    /\ clock = Epoch
    /\ returned = NothingReturned
    /\ InitChat

NextChats ==
    \/ \E c \in Contexts : LoadRules(c)
    \/ \E c \in Contexts : FetchSettles(c)
    \/ AdminSave(DocZero)
    \/ \E c \in Contexts : StorageEvent(c)
    \/ \E c \in Contexts : ChatInit(c)
    \/ \E c \in Contexts : ToggleMode(c)
    \/ \E c \in Contexts, userMessage \in Messages : ProcessUserMessage(c, userMessage)
    \/ \E c \in Contexts : DelayElapses(c)
    \/ ResponseReturns

SpecChats == InitChats /\ [][NextChats]_vars

\* Callers create sessions, add messages, delete sessions and clear the
\* collection, from collections with no current session, with the oldest
\* and with the newest session current, at and below the session cap
InitPointer ==
    /\ store \in {NoData, InitialData}
                    \cup {Populated(n, 0, cur) :
                             n \in {2, maxChats}, cur \in {NoChat, 1, 2}}
    /\ medium = "ok"
    /\ clock = Epoch
    /\ returned = NothingReturned
    /\ localStore = NoOverride
    /\ bundled = "valid"
    /\ InitMatcher
    /\ InitChat

NextPointer ==
    \/ StorageInit
    \/ CreateNewChat
    \/ \E chatId \in ChatIdInputs, message \in MessageInputs :
           AddMessageToChat(chatId, message)
    \/ \E chatId \in ChatIdInputs : DeleteChat(chatId)
    \/ ClearAllChats

SpecPointer == InitPointer /\ [][NextPointer]_vars

\* The messages typed into the application
AppMessages == {<<"a">>, <<"b">>}

\* The application starts over a working localStorage that holds no chat,
\* chats without a current one, or chats with the current one having a
\* message; its user types messages and uses the sidebar
InitApp ==
    /\ localStore = DocPlain
    /\ bundled = "unreachable"
    /\ InitMatcher
    /\ store \in {InitialData, Populated(2, 0, NoChat), Populated(2, 1, 1),
                  Populated(2, 1, 2)}
    /\ medium = "ok"
    /\ clock = Epoch
    /\ returned = NothingReturned
    /\ InitChat

NextApp ==
    \/ \E c \in Contexts : LoadRules(c)
    \/ \E c \in Contexts : AppInit(c)
    \/ \E c \in Contexts, userMessage \in AppMessages : ProcessUserMessage(c, userMessage)
    \/ \E c \in Contexts : DelayElapses(c)
    \/ ResponseReturns
    \/ \E c \in Contexts, chatId \in ChatIdInputs : SelectChat(c, chatId)
    \/ \E c \in Contexts : SidebarCreateNewChat(c)
    \/ \E c \in Contexts, chatId \in ChatIdInputs : SidebarDeleteChat(c, chatId)
    \/ \E c \in Contexts : SidebarClearAllChats(c)

SpecApp == InitApp /\ [][NextApp]_vars

\* The application of one context runs while another context, on the same
\* collection, creates and deletes sessions and clears the collection
\* through the store; the collection starts with two sessions or at the cap
InitShared ==
    /\ localStore = DocPlain
    /\ bundled = "unreachable"
    /\ InitMatcher
    /\ store \in {Populated(2, 1, 2), Populated(maxChats, 0, 1)}
    /\ medium = "ok"
    /\ clock = Epoch
    /\ returned = NothingReturned
    /\ InitChat

NextShared ==
    \/ \E c \in Contexts : LoadRules(c)
    \/ \E c \in Contexts : AppInit(c)
    \/ \E c \in Contexts, userMessage \in AppMessages : ProcessUserMessage(c, userMessage)
    \/ \E c \in Contexts : DelayElapses(c)
    \/ ResponseReturns
    \/ CreateNewChat
    \/ \E chatId \in ChatIdInputs : DeleteChat(chatId)
    \/ ClearAllChats

SpecShared == InitShared /\ [][NextShared]_vars

\* The messages a user types into a chat that runs on the embedded rules:
\* the match of each embedded rule, and a text that no rule has
TypedPrompts == {FallbackRules[i].match[1] : i \in DOMAIN FallbackRules} \cup {<<"a">>}

\* A chat context without override and bundled source answers typed
\* messages and clicked followup suggestions
InitFollowups ==
    /\ InitChats
    /\ localStore = NoOverride

NextFollowups ==
    \/ \E c \in Contexts : LoadRules(c)
    \/ \E c \in Contexts : FetchSettles(c)
    \/ \E c \in Contexts : ChatInit(c)
    \/ \E c \in Contexts, userMessage \in TypedPrompts : ProcessUserMessage(c, userMessage)
    \/ \E c \in Contexts : DelayElapses(c)
    \/ \E c \in Contexts : HandleFollowupSuggestion(c)
    \/ ResponseReturns

SpecFollowups == InitFollowups /\ [][NextFollowups]_vars

\* One matcher loads from fixed sources and is asked for responses
NextResponses ==
    \/ \E c \in Contexts : LoadRules(c)
    \/ \E c \in Contexts : FetchSettles(c)
    \/ \E c \in Contexts, userInput \in Inputs : ProcessInput(c, userInput)
    \/ ResponseReturns

SpecResponses == InitMatch /\ [][NextResponses]_vars

(* ------------------------ notions of the claims ----------------------- *)

\* s consists of blanks only
Blank(s) == \A i \in DOMAIN s : s[i] = " "

\* t is s without the blanks at its two ends
IsTrimOf(t, s) ==
    \E i, j \in 0..Len(s) :
        /\ i + j <= Len(s)
        /\ t = SubSeq(s, i + 1, Len(s) - j)
        /\ Blank(SubSeq(s, 1, i))
        /\ Blank(SubSeq(s, Len(s) - j + 1, Len(s)))
        /\ t # <<>> => t[1] # " " /\ t[Len(t)] # " "

Trimmed(s) ==
    CHOOSE t \in {SubSeq(s, a, b) : a \in 1..(Len(s) + 1), b \in 0..Len(s)} :
        IsTrimOf(t, s)

\* The same character, or the two cases of one letter
SameLetter(x, y) == x = y \/ {x, y} = {"a", "A"}

EqualIgnoringCase(s, t) ==
    Len(s) = Len(t) /\ \A i \in DOMAIN s : SameLetter(s[i], t[i])

\* part occurs in whole, and is shorter
StrictlyWithin(part, whole) ==
    /\ Len(part) < Len(whole)
    /\ \E k \in 1..(Len(whole) - Len(part) + 1) :
           EqualIgnoringCase(SubSeq(whole, k, k + Len(part) - 1), part)

\* A rule with a literal string match, compared ignoring case
LiteralInsensitive(rule) ==
    rule.matchKind = "string" /\ ~rule.caseSensitive /\ rule.match[1] # Wildcard

\* Section 4.2: the rule matches the trimmed input t
ShouldMatch(t, rule) ==
    \/ IsCatchAll(rule)
    \/ \E k \in DOMAIN rule.match :
           IF rule.caseSensitive THEN t = rule.match[k]
           ELSE EqualIgnoringCase(t, rule.match[k])

\* The priority a rule declares, 999 when it declares none
DeclaredPriority(rule) == IF rule.hasPriority THEN rule.priority ELSE 999

\* Lower priorities first
PriorityOrdered(rs) ==
    \A i, j \in DOMAIN rs :
        DeclaredPriority(rs[i]) < DeclaredPriority(rs[j]) => i < j

\* rs holds exactly the rules of src, each once
SameRules(rs, src) ==
    /\ Len(rs) = Len(src)
    /\ {rs[i] : i \in DOMAIN rs} = {src[i] : i \in DOMAIN src}

Position(rule, rs) == CHOOSE i \in DOMAIN rs : rs[i] = rule

\* Both declare the same priority, or both declare none
SamePriority(x, y) ==
    \/ x.hasPriority /\ y.hasPriority /\ x.priority = y.priority
    \/ ~x.hasPriority /\ ~y.hasPriority

\* The rule lists of all source documents
SourceRuleLists ==
    {doc.rules : doc \in {d \in LoadDocs : d.kind = "ok"}}
        \cup {BundledRules, FallbackRules}

HasCatchAll(rs) == \E i \in DOMAIN rs : IsCatchAll(rs[i])

\* An answered findMatch call on a loaded matcher
Answered == query.asked /\ query.loaded

(* ------------------------------- claims ------------------------------- *)

\* C1: a rule with a literal match and caseSensitive = false is the result
\* of findMatch exactly when the trimmed input equals its match ignoring
\* letter case and no rule stored before it matches; a trimmed input that is
\* strictly part of the match, or strictly contains it, never gets the rule.
C1_ExactMatch ==
    Answered =>
        LET t == Trimmed(query.input)
            rs == query.rules
        IN  \A i \in DOMAIN rs :
                LiteralInsensitive(rs[i]) =>
                    /\ query.result = <<rs[i]>> <=>
                           /\ EqualIgnoringCase(t, rs[i].match[1])
                           /\ \A j \in 1..(i - 1) : ~ShouldMatch(t, rs[j])
                    /\ StrictlyWithin(t, rs[i].match[1]) \/ StrictlyWithin(rs[i].match[1], t)
                           => query.result # <<rs[i]>>

\* C1 witness: an input with blanks around it and in another case than the
\* match got the literal rule
C1_Witness ==
    /\ Answered
    /\ query.result # Null
    /\ LiteralInsensitive(query.result[1])
    /\ Trimmed(query.input) # query.input
    /\ Trimmed(query.input) # query.result[1].match[1]

\* C2: of two rules of the loaded set that both match the input, findMatch
\* returns the one declaring the lower priority, whatever the integers.
C2_PriorityPrecedence ==
    Answered =>
        LET t == Trimmed(query.input)
            rs == query.rules
        IN  \A i, j \in DOMAIN rs :
                /\ t # <<>>
                /\ ShouldMatch(t, rs[i])
                /\ ShouldMatch(t, rs[j])
                /\ DeclaredPriority(rs[i]) < DeclaredPriority(rs[j])
                => query.result # <<rs[j]>>

\* The trimmed input matches no literal rule of the set
NoLiteralMatches(t, rs) ==
    \A i \in DOMAIN rs : ~IsCatchAll(rs[i]) => ~ShouldMatch(t, rs[i])

\* The first catch-all rule of the set
FirstCatchAll(rs) ==
    rs[CHOOSE i \in DOMAIN rs :
           IsCatchAll(rs[i]) /\ \A j \in 1..(i - 1) : ~IsCatchAll(rs[j])]

\* C3 as stated: with a catch-all in the loaded set, every non-empty input
\* that equals no literal match gets the catch-all rule, never null.
C3_CatchAllCoverage ==
    Answered /\ HasCatchAll(query.rules) /\ query.input # <<>>
             /\ NoLiteralMatches(Trimmed(query.input), query.rules)
        => query.result = <<FirstCatchAll(query.rules)>>

\* C3 amended: with a catch-all in the loaded set, every input that is
\* non-empty after trimming and equals no literal match gets the catch-all
\* rule, never null.
C3_CatchAllCoverageTrimmed ==
    Answered /\ HasCatchAll(query.rules) /\ Trimmed(query.input) # <<>>
             /\ NoLiteralMatches(Trimmed(query.input), query.rules)
        => query.result = <<FirstCatchAll(query.rules)>>

\* C3 witness: a set with literal rules and a catch-all answered an input
\* that no literal matches with the catch-all
C3_Witness ==
    /\ Answered
    /\ Trimmed(query.input) # <<>>
    /\ \E i \in DOMAIN query.rules : ~IsCatchAll(query.rules[i])
    /\ NoLiteralMatches(Trimmed(query.input), query.rules)
    /\ query.result # Null
    /\ IsCatchAll(query.result[1])

\* C4: after every load, reload or applied notification the rule set in
\* memory has each rule of a lower priority (0 included, none counting as
\* 999) before each rule of a higher one.
C4_PriorityOrder ==
    \A c \in Contexts : isLoaded[c] => PriorityOrdered(rules[c])

\* C5: two rules of equal priority, or both without one, stand in memory in
\* the order they have in the document they come from, after any number of
\* loads, reloads and notifications.
C5_StableSort ==
    \A c \in Contexts : \A src \in SourceRuleLists :
        \A i, j \in DOMAIN src :
            /\ i < j
            /\ SamePriority(src[i], src[j])
            /\ \E k \in DOMAIN rules[c] : rules[c][k] = src[i]
            /\ \E k \in DOMAIN rules[c] : rules[c][k] = src[j]
            => Position(src[i], rules[c]) < Position(src[j], rules[c])

\* C5 witness: after a reload and a delivered notification the set in memory
\* holds two rules without priority that another rule separates in the
\* document
C5_Witness ==
    \E c \in Contexts :
        /\ listeners[c] >= 2
        /\ writes >= 1
        /\ events[c] = <<>>
        /\ \E i, j \in DOMAIN rules[c] :
               /\ i < j
               /\ ~rules[c][i].hasPriority
               /\ ~rules[c][j].hasPriority
               /\ \E src \in SourceRuleLists :
                      /\ SameRules(rules[c], src)
                      /\ Position(rules[c][j], src) - Position(rules[c][i], src) > 1

\* The override a load cannot use: none, unparseable text, no rules list
Unusable(doc) == doc.kind \in {"absent", "unparseable", "norules"}

\* C6: a completed load that found the override absent or malformed holds
\* the sorted bundled default set whenever the bundled source is reachable
\* and valid; it holds the embedded default set only when the override and
\* the bundled source both failed.
C6_FallbackChain ==
    \A c \in Contexts :
        isLoaded[c] =>
            /\ Unusable(localStore) /\ bundled = "valid"
                   => SameRules(rules[c], BundledRules) /\ PriorityOrdered(rules[c])
            /\ SameRules(rules[c], FallbackRules)
                   => Unusable(localStore) /\ bundled # "valid"

\* C7: a load that found a well-formed override holds exactly the override's
\* rules, sorted, and no rule of the bundled or embedded default set.
C7_OverrideWins ==
    \A c \in Contexts :
        isLoaded[c] /\ localStore.kind = "ok" =>
            /\ SameRules(rules[c], localStore.rules)
            /\ PriorityOrdered(rules[c])
            /\ \A i \in DOMAIN rules[c] :
                   /\ \A k \in DOMAIN BundledRules : rules[c][i] # BundledRules[k]
                   /\ \A k \in DOMAIN FallbackRules : rules[c][i] # FallbackRules[k]

\* C8: whatever the override and the bundled source are, a completed
\* loadRules call leaves the matcher ready, with a priority-sorted rule set
\* taken wholly from one source.
C8_LoadAlwaysReady ==
    \A c \in Contexts :
        listeners[c] > 0 =>
            /\ isLoaded[c]
            /\ PriorityOrdered(rules[c])
            /\ \E src \in SourceRuleLists : SameRules(rules[c], src)

\* The storage event at the head of c's queue is dispatched in this step
Dispatched(c) == events[c] # <<>> /\ events'[c] = Tail(events[c])

\* C9: when a loaded context receives the notification of a replacement, its
\* rule set becomes exactly the rules of the payload, in priority order, with
\* nothing of its prior set left.
C9_CrossContextSync ==
    [][\A c \in Contexts :
          Dispatched(c) /\ isLoaded[c] /\ Head(events[c]).kind = "ok" =>
              /\ SameRules(rules'[c], Head(events[c]).rules)
              /\ PriorityOrdered(rules'[c])]_vars

\* No load and no notification of c is in flight
Quiescent(c) == pending[c] = <<>> /\ events[c] = <<>>

\* C10: once the override has been replaced and the loads and notifications
\* in flight have completed, every started context holds the rules of the
\* persisted override (already the content, whatever the order, is claimed).
C10_Convergence ==
    \A c \in Contexts :
        Started(c) /\ Quiescent(c) /\ writes > 0 /\ localStore.kind = "ok"
            => SameRules(rules[c], localStore.rules)

\* A payload the listener cannot use: unparseable text, or a document whose
\* rules field is missing or no list
Malformed(doc) == doc.kind \in {"unparseable", "norules"}

\* C11: the dispatch of a malformed change notification leaves the rule set
\* of the context as it was; nothing of the payload is applied.
C11_MalformedIgnored ==
    [][\A c \in Contexts :
          Dispatched(c) /\ Malformed(Head(events[c])) => rules'[c] = rules[c]]_vars

\* C11 witness: a context that loaded the override DocTies has been notified
\* of its replacement by unparseable text and still holds the rules of
\* DocTies
C11_Witness ==
    \E c \in Contexts :
        /\ writes = 1
        /\ localStore = Unparseable
        /\ events[c] = <<>>
        /\ SameRules(rules[c], DocTies.rules)

C14_NotReady ==
    /\ [](\A c \in Contexts :
             listeners[c] = 0 =>
                 /\ ~isReady(c)
                 /\ getAllRules(c) = <<>>
                 /\ \A userInput \in Inputs :
                        findMatch(userInput, rules[c], isLoaded[c]) = Null)
    /\ [][\A c \in Contexts : isReady(c) => isLoaded'[c]]_vars

\* C14 witness: a context whose first load still awaits its fetch has been
\* notified of a well-formed override meanwhile, and is still not ready
C14_Witness ==
    \E c \in Contexts :
        /\ listeners[c] = 0
        /\ pending[c] # <<>>
        /\ writes >= 1
        /\ localStore.kind = "ok"
        /\ events[c] = <<>>
        /\ ~isReady(c)


\* The session of the collection with the given id (ids are unique)
SessionWith(data, chatId) ==
    data.chats[CHOOSE i \in DOMAIN data.chats : data.chats[i].id = chatId]

\* The n newest elements of a list, in the order of the list
Newest(list, n) == [k \in 1..n |-> list[Len(list) - n + k]]

\* This step is a successful addMessageToChat call
Appended ==
    /\ clock' = clock + 1
    /\ returned'.call = "addMessageToChat"
    /\ returned'.ok

\* C18: a session never holds more than maxMessagesPerChat messages, and
\* every append leaves the session with the newest messages of its list
\* extended by the new message, in append order: the oldest are dropped.
C18_MessageCap ==
    /\ [](\A i \in DOMAIN store.chats :
             Len(store.chats[i].messages) <= maxMessagesPerChat)
    /\ [][Appended =>
             LET old == SessionWith(store, returned'.id).messages
                 new == SessionWith(store', returned'.id).messages
                 all == Append(old, new[Len(new)])
             IN  /\ new # <<>>
                 /\ new[Len(new)].id = clock'
                 /\ new = Newest(all, IF Len(all) < maxMessagesPerChat
                                      THEN Len(all) ELSE maxMessagesPerChat)]_vars

\* C18 witness: a session at the cap whose oldest message was dropped for a
\* newly appended one
C18_Witness ==
    \E i \in DOMAIN store.chats :
        LET chat == store.chats[i]
        IN  /\ Len(chat.messages) = maxMessagesPerChat
            /\ chat.messages[1].id > chat.id + 1
            /\ chat.messages[maxMessagesPerChat].id > Epoch

\* C19: in every persisted state the messageCount of every session is the
\* length of its messages list.
C19_MessageCount ==
    \A i \in DOMAIN store.chats :
        store.chats[i].messageCount = Len(store.chats[i].messages)

\* C19 witness: a session was cut at the cap by an append, and another call
\* has changed the collection since
C19_Witness ==
    /\ returned.call \in {"deleteChat", "setCurrentChat", "createNewChat"}
    /\ returned.ok
    /\ \E i \in DOMAIN store.chats :
           /\ store.chats[i].messageCount = maxMessagesPerChat
           /\ store.chats[i].messages[1].id > store.chats[i].id + 1

\* This step is a createNewChat call that created a session
Created ==
    /\ clock' = clock + 1
    /\ returned'.call = "createNewChat"
    /\ returned'.ok

\* C20: createNewChat puts the new session first and makes it the persisted
\* current session; the collection never holds more than maxChats sessions,
\* and at the limit the session removed is the last one, the oldest, the
\* others keeping their order behind the new one.
C20_CreateNewChat ==
    /\ [](Len(store.chats) <= maxChats)
    /\ [][Created =>
             LET old == store.chats
                 new == store'.chats
             IN  /\ new # <<>>
                 /\ new[1].id = returned'.id
                 /\ new[1].messages = <<>>
                 /\ store'.currentChatId = returned'.id
                 /\ Tail(new) = IF Len(old) < maxChats THEN old
                                ELSE SubSeq(old, 1, Len(old) - 1)
                 /\ Len(old) = maxChats =>
                        \A k \in DOMAIN new : new[k].created > old[maxChats].created]_vars

\* C20 witness: a full collection whose newest session was created past the
\* limit, the oldest session of the start gone
C20_Witness ==
    /\ Len(store.chats) = maxChats
    /\ store.chats[1].id > Epoch
    /\ store.currentChatId = store.chats[1].id
    /\ store.chats[maxChats].id = 2

\* The rule lists of all documents a chat context can take its rules from
ChatRuleLists ==
    {doc.rules : doc \in {d \in ChatDocs : d.kind = "ok"}}
        \cup {BundledRules, FallbackRules}

\* rs is the complete content of one source document, in priority order
SortedContentOfOneSource(rs) ==
    /\ \E src \in ChatRuleLists : SameRules(rs, src)
    /\ PriorityOrdered(rs)

\* C12: the rule set a ready matcher holds, and the rule set every
\* processInput call consults, a call made after the response delay of a
\* user message included, is the complete sorted content of one source
\* document, never a mixture of two.
C12_AtomicReplacement ==
    /\ \A c \in Contexts : isReady(c) => SortedContentOfOneSource(rules[c])
    /\ reply.asked /\ reply.loaded => SortedContentOfOneSource(reply.rules)

\* The response processInput is to give when no rule is found
Apology ==
    [type |-> "text", value |-> "I didn't understand that. Please try again.",
     followup |-> <<>>]

\* C17: a processInput call for an input that is empty after trimming, or
\* on a matcher whose rules are not loaded, or on a rule set without
\* catch-all in which no literal matches, returns the built-in text apology
\* with an empty followup list.
C17_AlwaysResponds ==
    reply.asked =>
        /\ reply.matched = Null => reply.response = Apology
        /\ \/ Trimmed(reply.input) = <<>>
           \/ ~reply.loaded
           \/ /\ ~HasCatchAll(reply.rules)
              /\ \A i \in DOMAIN reply.rules :
                     ~ShouldMatch(Trimmed(reply.input), reply.rules[i])
           => reply.response = Apology

\* C17 witness: a loaded rule set without catch-all was asked for an input
\* that is not blank and that no rule matches, and gave the apology
C17_Witness ==
    /\ reply.asked
    /\ reply.loaded
    /\ reply.rules # <<>>
    /\ Trimmed(reply.input) # <<>>
    /\ ~HasCatchAll(reply.rules)
    /\ reply.response = Apology

\* The rule's match contains one of the two keywords: a string match as a
\* part of it, a list of matches as one of its entries
ContainsKeyword(rule) ==
    \E keyword \in {"demo", "screenshot"} :
        IF rule.matchKind = "string"
        THEN \E n \in DOMAIN rule.match[1] : rule.match[1][n] = keyword
        ELSE \E k \in DOMAIN rule.match : rule.match[k] = <<keyword>>

\* The image rules of rs that match the message as it was submitted, and
\* those whose match contains a keyword, by position
MatchingImages(message, rs) ==
    {i \in DOMAIN rs : rs[i].type = "image" /\ ShouldMatch(message, rs[i])}

KeywordImages(rs) ==
    {i \in DOMAIN rs : rs[i].type = "image" /\ ContainsKeyword(rs[i])}

First(positions) == CHOOSE i \in positions : \A j \in positions : i <= j

\* handleResponse served a response for a rule that findMatch found
Served == shown.handled /\ shown.matched # Null

\* The case of C15: image mode, a matched text rule, no image alternative
NoImageAlternative(view) ==
    /\ view.handled
    /\ view.matched # Null
    /\ view.imageMode
    /\ view.matched[1].type = "text"
    /\ MatchingImages(view.input, view.rules) = {}
    /\ KeywordImages(view.rules) = {}

\* The newest message of the session chatId in data
NewestMessage(data, chatId) ==
    LET messages == data.chats[IndexOfChat(data.chats, chatId)].messages
    IN  messages[Len(messages)]

\* C15: in image mode, for a matched text rule and a rule set with no image
\* rule matching the message and no image rule whose match contains "demo"
\* or "screenshot", the response served and the message stored in the
\* current session carry the value and the followup of the text rule, with
\* responseType text.
C15_ModalityFallback ==
    /\ [](NoImageAlternative(shown) =>
              /\ shown.final = Response("text", shown.matched[1].value,
                                        shown.matched[1].followup)
              /\ shown.message = AssistantMessage(<<shown.matched[1].value>>, "text",
                                                  shown.matched[1].followup))
    /\ [][NoImageAlternative(shown') /\ ~shown.handled /\ shown'.saved =>
              LET stored == NewestMessage(store', currentChatId[shown'.ctx])
              IN  /\ stored.type = "assistant"
                  /\ stored.content = <<shown'.matched[1].value>>
                  /\ stored.followup = shown'.matched[1].followup
                  /\ stored.responseType = "text"]_vars

\* C15 witness: in image mode a text rule with followup prompts was served
\* and stored as it is, although the rule set holds an image rule
C15_Witness ==
    /\ NoImageAlternative(shown)
    /\ shown.saved
    /\ shown.matched[1].followup # <<>>
    /\ shown.final.followup = shown.matched[1].followup
    /\ \E i \in DOMAIN shown.rules : shown.rules[i].type = "image"

Capitalized(s) == IF s = <<>> THEN s ELSE <<UpperChar(s[1])>> \o Tail(s)

Ellipsis == <<".", ".", ".">>

\* The call addMessageToChat(chatId, message) has just succeeded on a chat
\* that held no user message and was titled 'New Chat'
FirstUserMessageLands(chatId, content) ==
    /\ returned' = Returned("addMessageToChat", TRUE, chatId)
    /\ clock' = clock + 1
    /\ HasChat(store, chatId)
    /\ HasChat(store', chatId)
    /\ LET before == store.chats[IndexOfChat(store.chats, chatId)]
           after == store'.chats[IndexOfChat(store'.chats, chatId)]
           added == after.messages[Len(after.messages)]
       IN  /\ before.title = NewChatTitle
           /\ \A k \in DOMAIN before.messages : before.messages[k].type # "user"
           /\ added.id = clock'
           /\ added.type = "user"
           /\ added.content = content

\* C21: when the first user message lands on a session titled 'New Chat',
\* the title becomes the first 29 characters of the message followed by
\* '...' when the message is longer than 30 characters, and the message
\* itself otherwise, the first letter in upper case.
C21_TitleDerivation ==
    [][\A chatId \in ChatIdInputs, content \in TitleContents :
          FirstUserMessageLands(chatId, content) =>
              store'.chats[IndexOfChat(store'.chats, chatId)].title =
                  IF Len(content) > TitleLimit
                  THEN Capitalized(SubSeq(content, 1, TitleLimit - 1)) \o Ellipsis
                  ELSE Capitalized(content)]_vars

\* The store method call has just been made with chatId
Called(call, chatId) ==
    /\ clock' = clock + 1
    /\ returned'.call = call
    /\ returned'.id = chatId

\* C22: addMessageToChat and deleteChat called with an id that is not in
\* the collection return false and leave the persisted collection, its
\* sessions, messages and current pointer, as it was.
C22_UnknownSession ==
    [][\A call \in {"addMessageToChat", "deleteChat"} : \A chatId \in ChatIdInputs :
          Called(call, chatId) /\ ~HasChat(store, chatId) =>
              /\ ~returned'.ok
              /\ store' = store]_vars

\* C22 witness: deleteChat has returned false for an id that no session of
\* a collection with sessions and a current session has
C22_Witness ==
    /\ returned = Returned("deleteChat", FALSE, UnknownChat)
    /\ store.present
    /\ store.chats # <<>>
    /\ store.currentChatId # NoChat

\* C23: setCurrentChat called with a session id that is not in the
\* collection returns false and leaves the persisted current pointer as it
\* was.
C23_SetCurrentUnknown ==
    [][\A chatId \in ChatIdInputs :
          /\ Called("setCurrentChat", chatId)
          /\ chatId # NoChat
          /\ ~HasChat(store, chatId)
          => /\ ~returned'.ok
             /\ store'.currentChatId = store.currentChatId]_vars

\* A method of the store has just been called directly
StoreCalled(call) ==
    /\ clock' = clock + 1
    /\ returned'.call = call
    /\ UNCHANGED chatVars

\* The response of a user message has just been handled in context c
Responded(c) ==
    /\ waiting[c] # <<>>
    /\ waiting'[c] = Tail(waiting[c])

\* While the medium cannot be written, or cannot be accessed at all, the
\* calls of the store give null or false
StoreCallsFail ==
    [][medium # "ok" =>
          \A call \in {"createNewChat", "addMessageToChat", "deleteChat",
                       "clearAllChats", "setCurrentChat"} :
              StoreCalled(call) => ~returned'.ok]_vars

\* Every load that completes leaves the matcher ready
LoadsEndReady ==
    [][\A c \in Contexts : listeners'[c] > listeners[c] => isReady(c)']_vars

\* Every user message gets an assistant response into messageHistory
ResponsesRecorded ==
    [][\A c \in Contexts :
          Responded(c) =>
              /\ Len(messageHistory'[c]) = Len(messageHistory[c]) + 1
              /\ messageHistory'[c][Len(messageHistory'[c])].type = "assistant"
              /\ messageHistory'[c][Len(messageHistory'[c])].content # <<>>]_vars

\* C24: while the persistence medium cannot be read or written,
\* createNewChat returns null and addMessageToChat, deleteChat,
\* clearAllChats and setCurrentChat return false, every load of the rules
\* ends ready, and every user message gets an assistant response recorded
\* in the message history of the chat manager.
C24_StorageUnavailable ==
    /\ StoreCallsFail
    /\ LoadsEndReady
    /\ ResponsesRecorded

\* The rules context c holds are those of an override document, the
\* persisted one or an earlier one
HeldFromOverride(c) ==
    \E src \in {doc.rules : doc \in {d \in AdminDocs : d.kind = "ok"}} :
        SameRules(rules[c], src)

\* C25: getRulesSource reports 'localStorage' only when the rules the
\* matcher holds were taken from the persisted override.
C25_RulesSource ==
    \A c \in Contexts :
        isReady(c) /\ getRulesSource(c).source = "localStorage" => HeldFromOverride(c)

\* The positions of the catch-all rules in rs
CatchAlls(rs) == {i \in DOMAIN rs : IsCatchAll(rs[i])}

\* C26: every rule set held after a load completes contains exactly one
\* rule whose match is the wildcard '*'.
C26_OneCatchAll ==
    \A c \in Contexts : isReady(c) => Cardinality(CatchAlls(rules[c])) = 1

\* The positions of the rules of rs that match the trimmed input t
Matching(t, rs) == {i \in DOMAIN rs : ShouldMatch(t, rs[i])}

\* C28: findMatch returns the earliest rule in stored order that matches
\* the input, the wildcard counting like any other rule at its position: no
\* rule stored before the returned one matches, and a wildcard rule of a
\* lower priority number than a literal rule is returned even for an input
\* equal to that literal.
C28_EarliestMatch ==
    Answered /\ Trimmed(query.input) # <<>> =>
        LET t == Trimmed(query.input)
            matching == Matching(t, query.rules)
        IN  /\ IF matching = {} THEN query.result = Null
               ELSE /\ query.result = <<query.rules[First(matching)]>>
                    /\ \A j \in 1..(First(matching) - 1) :
                           ~ShouldMatch(t, query.rules[j])
            /\ \A i, j \in DOMAIN query.rules :
                   /\ IsCatchAll(query.rules[i])
                   /\ ~IsCatchAll(query.rules[j])
                   /\ ShouldMatch(t, query.rules[j])
                   /\ DeclaredPriority(query.rules[i]) < DeclaredPriority(query.rules[j])
                   => /\ query.result # Null
                      /\ IsCatchAll(query.result[1])

\* processUserMessage has just taken a message in context c
Submitted(c) == Len(waiting'[c]) = Len(waiting[c]) + 1

\* The ids of the sessions of data
SessionIds(data) == {data.chats[i].id : i \in DOMAIN data.chats}

\* C27: processUserMessage creates a session exactly when the chat manager
\* has no current session id; otherwise it creates none and appends the
\* message to the current session.
C27_CreateIffNoSession ==
    [][\A c \in Contexts :
          Submitted(c) =>
              IF currentChatId[c] = NoChat
              THEN /\ currentChatId'[c] \notin SessionIds(store) \cup {NoChat}
                   /\ SessionIds(store') = SessionIds(store) \cup {currentChatId'[c]}
              ELSE /\ currentChatId'[c] = currentChatId[c]
                   /\ SessionIds(store') = SessionIds(store)
                   /\ HasChat(store, currentChatId[c]) =>
                          LET stored == NewestMessage(store', currentChatId[c])
                          IN  /\ stored.type = "user"
                              /\ stored.id = clock'
                              /\ stored.content = waiting'[c][Len(waiting'[c])]]_vars

\* C27 witness: a second user message was appended to the session the
\* first one created, and no other session exists
C27_Witness ==
    \E c \in Contexts :
        /\ waiting[c] # <<>>
        /\ Len(messageHistory[c]) = 3
        /\ Len(store.chats) = 1
        /\ store.chats[1].id = currentChatId[c]
        /\ Len(store.chats[1].messages) = 3
        /\ store.chats[1].messages[3].type = "user"

\* after holds the messages of before from position k + 1 on, in their
\* order, followed by at most one message that before did not hold
KeptInOrder(before, after, k) ==
    LET kept == Len(before) - k
    IN  /\ Len(after) \in {kept, kept + 1}
        /\ SubSeq(after, 1, kept) = SubSeq(before, k + 1, Len(before))
        /\ Len(after) = kept + 1 =>
               \A j \in DOMAIN before : before[j].id # after[Len(after)].id

\* C29: over every operation of the store, the messages of a session that
\* stays in the collection keep their relative order, a new message is added
\* only at the end, and messages are lost only from the front, when the cap
\* cuts the list.
C29_AppendOnly ==
    [][\A chatId \in SessionIds(store) \cap SessionIds(store') :
          LET before == SessionWith(store, chatId).messages
              after == SessionWith(store', chatId).messages
          IN  \E k \in 0..Len(before) :
                  /\ KeptInOrder(before, after, k)
                  /\ k > 0 => Len(after) = maxMessagesPerChat]_vars

\* C29 witness: a session that lost its oldest message to the cap holds
\* messages from the start and two appended since, all in the order of
\* their ids
C29_Witness ==
    \E i \in DOMAIN store.chats :
        LET messages == store.chats[i].messages
        IN  /\ Len(messages) = maxMessagesPerChat
            /\ messages[1].id < Epoch
            /\ messages[1].id > store.chats[i].id + 1
            /\ messages[maxMessagesPerChat - 1].id > Epoch
            /\ \A j \in 1..(maxMessagesPerChat - 1) : messages[j].id < messages[j + 1].id

\* The followup strings of the rules of rs
FollowupsOf(rs) ==
    UNION {{rs[i].followup[n] : n \in DOMAIN rs[i].followup} : i \in DOMAIN rs}

\* C30: every followup string of every rule of the embedded default rule
\* set, submitted to a chat that runs on that set, matches a rule of the set
\* that is not the wildcard.
C30_FollowupsArePrompts ==
    /\ shown.handled
    /\ SameRules(shown.rules, FallbackRules)
    /\ shown.input \in FollowupsOf(FallbackRules)
    => /\ shown.matched # Null
       /\ ~IsCatchAll(shown.matched[1])

\* C32: a context holds one change subscription however often loadRules or
\* reloadRules has run, so that every well-formed notification of an
\* override change is applied once and shows one 'rules updated' notice in
\* an initialised context.
C32_OneSubscription ==
    /\ [](\A c \in Contexts : isReady(c) => listeners[c] = 1)
    /\ [][\A c \in Contexts :
             Dispatched(c) /\ isReady(c) /\ isInitialized[c] /\ Head(events[c]).kind = "ok"
                 => notices'[c] = notices[c] + 1]_vars

C31_ResponseFollowsMessage ==
    [][\A c \in Contexts :
          Responded(c) =>
              \E i \in DOMAIN store'.chats :
                  LET messages == store'.chats[i].messages
                      n == Len(messages)
                  IN  /\ n >= 2
                      /\ messages[n].type = "assistant"
                      /\ messages[n].id = clock'
                      /\ messages[n - 1].type = "user"
                      /\ messages[n - 1].content = Head(waiting[c])]_vars


\* The session the application of c shows is the persisted current session
Aligned(c) ==
    /\ currentChatId[c] # NoChat
    /\ currentChatId[c] = selectedChatId[c]
    /\ store.currentChatId = currentChatId[c]
    /\ HasChat(store, currentChatId[c])

\* C35: in one context over a working localStorage, after App.initializeChat
\* and after every sidebar action the chat manager's current id, the
\* sidebar's selected id and the persisted current id are equal and name a
\* session of the collection; initializeChat resumes the persisted current
\* session if it exists, else the first session of the list, else a new one.
C35_PointersAgree ==
    /\ [](\A c \in Contexts : isInitialized[c] => Aligned(c))
    /\ [][\A c \in Contexts :
             ~isInitialized[c] /\ isInitialized'[c] =>
                 currentChatId'[c] =
                     IF HasChat(store, store.currentChatId) THEN store.currentChatId
                     ELSE IF store.chats # <<>> THEN store.chats[1].id
                     ELSE clock']_vars

\* C35 witness: the sidebar deleted the newest stored session, and a session
\* the sidebar created is the current one everywhere
C35_Witness ==
    \E c \in Contexts :
        /\ isInitialized[c]
        /\ Aligned(c)
        /\ currentChatId[c] > Epoch + 1
        /\ Len(store.chats) = 2
        /\ store.chats[2].id = 1


\* C34: under createNewChat, addMessageToChat, deleteChat and clearAllChats
\* the persisted current pointer is null or the id of a session of the
\* collection; deleting the current session and clearing reset it to null,
\* deleting another session leaves it alone, and the eviction of
\* createNewChat never removes the session that is current afterwards.
C34_CurrentPointer ==
    /\ [](store.currentChatId = NoChat \/ store.currentChatId \in SessionIds(store))
    /\ [][StoreCalled("deleteChat") /\ returned'.ok =>
             store'.currentChatId =
                 IF store.currentChatId = returned'.id THEN NoChat
                 ELSE store.currentChatId]_vars
    /\ [][StoreCalled("clearAllChats") /\ returned'.ok =>
             store'.currentChatId = NoChat]_vars
    /\ [][StoreCalled("createNewChat") /\ returned'.ok =>
             /\ store'.currentChatId = returned'.id
             /\ returned'.id \in SessionIds(store')]_vars
    /\ [][StoreCalled("addMessageToChat") =>
             store'.currentChatId = store.currentChatId]_vars

\* C34 witness: a session was created at the cap while the oldest session
\* was current: the oldest is evicted and the new session is current
C34_Witness ==
    /\ returned.call = "createNewChat"
    /\ Len(store.chats) = maxChats
    /\ store.chats[maxChats].id = 2
    /\ store.currentChatId = store.chats[1].id
    /\ store.currentChatId > Epoch


\* C36: a successful result implies persistence: when addMessageToChat
\* returns true, a read right after it finds the message in the session, and
\* when createNewChat returns an id, a read right after it finds the session,
\* also when the write fails while reads succeed.
C36_SuccessMeansPersisted ==
    /\ [][StoreCalled("createNewChat") /\ returned'.ok =>
             HasChat(Read(store'), returned'.id)]_vars
    /\ [][StoreCalled("addMessageToChat") /\ returned'.ok =>
             /\ HasChat(Read(store'), returned'.id)
             /\ NewestMessage(Read(store'), returned'.id).id = clock']_vars


\* C37: once the title of a session differs from 'New Chat', no later
\* addMessageToChat changes it, and a message that is not a user message
\* never changes a title.
C37_TitleStays ==
    [][StoreCalled("addMessageToChat") /\ returned'.ok =>
          \A i \in DOMAIN store.chats :
              LET before == store.chats[i]
                  after == store'.chats[IndexOfChat(store'.chats, before.id)]
              IN  \/ before.title # NewChatTitle
                  \/ NewestMessage(store', returned'.id).type # "user"
                  => after.title = before.title]_vars

\* C37 witness: a titled session took a second, different user message and
\* kept the title of the first, and a session that holds only an assistant
\* message is still titled 'New Chat'
C37_Witness ==
    /\ \E i \in DOMAIN store.chats :
           LET chat == store.chats[i]
           IN  /\ Len(chat.messages) = 2
               /\ chat.messages[1].type = "user"
               /\ chat.messages[2].type = "user"
               /\ chat.messages[2].content # chat.messages[1].content
               /\ chat.title = generateChatTitle(chat.messages[1].content)
               /\ chat.title # generateChatTitle(chat.messages[2].content)
    /\ \E i \in DOMAIN store.chats :
           LET chat == store.chats[i]
           IN  /\ Len(chat.messages) = 1
               /\ chat.messages[1].type = "assistant"
               /\ chat.title = NewChatTitle


\* The case of C38: image mode, a matched text rule, and an image rule that
\* matches the message or holds a keyword
Substituted(view) ==
    /\ view.handled
    /\ view.matched # Null
    /\ view.imageMode
    /\ view.matched[1].type = "text"
    /\ MatchingImages(view.input, view.rules) \cup KeywordImages(view.rules) # {}

\* The image rule findImageAlternative takes the value from
Supplier(view) ==
    view.rules[IF MatchingImages(view.input, view.rules) # {}
               THEN First(MatchingImages(view.input, view.rules))
               ELSE First(KeywordImages(view.rules))]

\* C38: when an image alternative is substituted, the assistant message
\* stored has responseType image, the value of the alternative as content,
\* and the followup list of the rule that supplied the response (that of the
\* image rule, or else that of the matched rule), so that no suggestion is
\* lost.
C38_AlternativeKeepsFollowups ==
    [][Substituted(shown') /\ ~shown.handled /\ shown'.saved =>
          LET stored == NewestMessage(store', currentChatId[shown'.ctx])
          IN  /\ stored.type = "assistant"
              /\ stored.responseType = "image"
              /\ stored.content = <<Supplier(shown').value>>
              /\ stored.followup \in {Supplier(shown').followup,
                                      shown'.matched[1].followup}]_vars


\* The message stored at this step, with its type and content, is the newest
\* message of some session of the collection
PersistedNow(type, content) ==
    \E i \in DOMAIN store'.chats :
        LET messages == store'.chats[i].messages
        IN  /\ messages # <<>>
            /\ messages[Len(messages)].id = clock'
            /\ messages[Len(messages)].type = type
            /\ messages[Len(messages)].content = content

\* C39: with two contexts on one collection, every user message an
\* initialised context processes, and its response, is persisted in a
\* session of the collection, also when the other context has deleted,
\* cleared away or evicted the session the first context has open.
C39_NothingLost ==
    /\ [][\A c \in Contexts :
             Submitted(c) => PersistedNow("user", waiting'[c][Len(waiting'[c])])]_vars
    /\ [][\A c \in Contexts :
             Responded(c) =>
                 PersistedNow("assistant",
                              messageHistory'[c][Len(messageHistory'[c])].content)]_vars

=============================================================================
